---- MODULE Spec2Model ----
(***************************************************************************)
(* selenium-webext-bridge: the event buffers of the background script     *)
(* (extension/background.js) and the readiness logic of the TestBridge    *)
(* client (lib/test-bridge.js).                                           *)
(*                                                                         *)
(* SpecBuf    - the background script: the two event buffers, their       *)
(*              listeners and the message handler.                        *)
(* SpecBridge - the TestBridge client driving a browser through WebDriver.*)
(* SpecWait   - the polling waiters: waitForCondition (lib/test-helpers),  *)
(*              the TestBridge waiters, the background waitForTabUrl loop  *)
(*              behind the page relay, and the in-page TestBridge.waitFor. *)
(* SpecEvent  - waitForTabEvent polling the tab event buffer.              *)
(* SpecCommand- one command at a time through the content script relay or  *)
(*              through bgCall, answered by the background script.         *)
(* SpecRelay  - the page relay with several requests outstanding.          *)
(* SpecAsync  - guarded operations started without awaiting one another.   *)
(* SpecStorm  - waitForTabEvent with storms of tab events in between.       *)
(* SpecSnapshot - a caller keeping the array a non-clearing drain returned. *)
(* SpecHello  - sendToExtension and clickBrowserAction driving the          *)
(*              hello-world example extension.                              *)
(* SpecCleanup- launchBrowser and cleanupBrowser (lib/test-helpers).        *)
(***************************************************************************)
EXTENDS Integers, Sequences, FiniteSets, TLC

(***************************************************************************)
(* Bounds of the exploration.                                              *)
(***************************************************************************)
\* size of a run of listener calls delivered between two messages
Burst == 100
\* listener runs per behaviour (both buffers together)
MaxRuns == 3
\* messages handled per behaviour
MaxMessages == 2
\* browser windows (WebDriver window handles) open at once
MaxWindows == 2
\* the timeouts (ms) passed to a waiter: -1, 0, a short and a long one
ShortTimeout == 600
LongTimeout == 16000
\* time (ms) one call of a slow condition takes
PollTime == 300
\* latest call on which a condition first turns truthy
MaxTrueAt == 3
\* largest number of leading calls of a condition that throw
MaxThrowUntil == 2

\* relay requests made per behaviour
MaxRequests == 2
\* guarded operations the test starts before it awaits any of them
MaxOps == 3
\* browser objects the test holds
MaxBrowsers == 2
\* awaited sendToExtension and clickBrowserAction calls per behaviour
MaxCalls == 4

(***************************************************************************)
(* Program constants.                                                      *)
(***************************************************************************)
TAB_EVENT_BUFFER_SIZE == 100
WINDOW_EVENT_BUFFER_SIZE == 100
\* content script: setTimeout(..., 15000) in sendRequest
REQUEST_TIMEOUT == 15000
\* background.js: message.timeout || 10000
TAB_URL_DEFAULT_TIMEOUT == 10000
\* in-page TestBridge.waitFor: timeout || 5000
WAIT_FOR_DEFAULT_TIMEOUT == 5000
\* sleep(2000) before the second read of a count waiter
SETTLE_DELAY == 2000

TabEventTypes == {"created", "updated", "removed"}
WindowEventTypesWithUpdated == {"created", "updated", "removed"}
\* background.js: the window listeners registered: onCreated, onRemoved
WindowEventTypes == {"created", "removed"}
\* sizes of the listener runs explored: a single call, or a storm of calls
RunSizes == {1, Burst}

VARIABLES
  tabEventBuffer,      \* background.js: const tabEventBuffer = []
  windowEventBuffer,   \* background.js: const windowEventBuffer = []
  response,            \* what the message handler returned in the step just taken
  prevResponse,        \* summary of the step before that one
  tabRecorded,         \* history: number of pushTabEvent calls so far
  windowRecorded,      \* history: number of pushWindowEvent calls so far
  tabDelivered,        \* history: events returned by clearing getTabEvents, in order
  windowDelivered,     \* history: events returned by clearing getWindowEvents
  tabEvicted,          \* history: events shifted out of tabEventBuffer
  windowEvicted,       \* history: events shifted out of windowEventBuffer
  tabClearedAt,        \* history: tabRecorded at the last clearing getTabEvents
  windowClearedAt,     \* history: windowRecorded at the last clearing drain
  runs,                \* listener runs taken
  messages             \* messages handled

bufVars == <<tabEventBuffer, windowEventBuffer, response, prevResponse,
             tabRecorded, windowRecorded, tabDelivered, windowDelivered,
             tabEvicted, windowEvicted, tabClearedAt, windowClearedAt,
             runs, messages>>

VARIABLES
  ready,               \* test-bridge.js: this.ready
  pages,               \* the page shown by each window handle, in handle order
  focus,               \* the handle the driver is switched to (index into pages)
  outcome,             \* how the TestBridge call of the step just taken ended
  prev,                \* summary of the outcome of the step before that one
  everReady,           \* history: this.ready has been true at some point
  lastTarget,          \* history: page on which the bridge's own most recent
                       \* navigation or window switch ended
  httpSinceInit        \* history: an init() has succeeded and the current
                       \* location has been an http(s) page ever since

bridgeVars == <<ready, pages, focus, outcome, prev, everReady, lastTarget,
                httpSinceInit>>

VARIABLES
  wait,                \* the waiter call in progress: its arguments and the
                       \* behaviour of the condition it polls
  pc,                  \* where that call stands in its loop
  elapsed,             \* Date.now() - startTime
  polls,               \* calls of the condition made by this waiter call
  result,              \* the value the waiter call returned
  raised,              \* the error the waiter call threw
  seen                 \* waitForTabUrl: the tab list of the poll that matched

waitVars == <<wait, pc, elapsed, polls, result, raised, seen>>

VARIABLES
  seeking,             \* waitForTabEvent: the eventType of the call in progress
  found                \* waitForTabEvent: what the call returned, and what its
                       \* polls have seen so far

eventVars == <<seeking, found>>

VARIABLES
  call,                \* the command the test just made: channel, action, argument
  answer,              \* what the background script answered to it
  returned             \* how the command ended for its caller

commandVars == <<call, answer, returned>>

VARIABLES
  requestId,           \* page script: let requestId = 0
  pendingRequests,     \* page script: the keys of the pendingRequests Map
  requests,            \* bridge-request messages posted and not yet handled
  responses,           \* bridge-response messages posted and not yet handled
  timers,              \* ids whose setTimeout(..., 15000) has not fired yet
  made,                \* history: the request made under each id
  settled              \* history: the resolve and reject calls made, in order

relayVars == <<requestId, pendingRequests, requests, responses, timers, made,
               settled>>

VARIABLES
  ops                  \* the guarded operations started by the test and not
                       \* awaited: where each one stands

asyncVars == <<ops>>

VARIABLES
  snapshot             \* the array a test got from its latest non-clearing
                       \* getTabEvents or getWindowEvents, and still holds

snapshotVars == <<snapshot>>

VARIABLES
  context              \* the context WebDriver commands run in: content, chrome

driverVars == <<context>>

VARIABLES
  counter,             \* hello-world background script: let counter = 0
  asked,               \* history: the action of each sendToExtension call
                       \* that has returned to the test, in call order
  received,            \* history: the action of each message the
                       \* hello-world extension has received, in order
  clicked,             \* history: how many times the toolbar button of the
                       \* hello-world extension was clicked
  reply                \* the latest sendToExtension or clickBrowserAction
                       \* call of the test and how it ended

helloVars == <<counter, asked, received, clicked, reply>>

VARIABLES
  browsers,            \* each launched browser: its driver and its profile
  cleanup              \* how the latest cleanupBrowser call went

cleanupVars == <<browsers, cleanup>>

extraVars == <<snapshotVars, driverVars, helloVars, cleanupVars>>

vars == <<bufVars, bridgeVars, waitVars, eventVars, commandVars, relayVars,
          asyncVars, extraVars>>

(***************************************************************************)
(* Helpers.                                                                *)
(***************************************************************************)
Min(a, b) == IF a < b THEN a ELSE b

Range(s) == {s[i] : i \in 1..Len(s)}

\* the record ordinals of a sequence of events
Ordinals(s) == [i \in 1..Len(s) |-> s[i].seq]

StrictlyIncreasing(s) == \A i \in 1..(Len(s) - 1) : s[i] < s[i + 1]

(***************************************************************************)
(* background.js: the event buffers.                                       *)
(* An event is [type, seq]: seq is the ordinal of the record call within   *)
(* its category and stands for the event's payload and timestamp.          *)
(***************************************************************************)
pushWindowEventKeepAll(buffer, event) == Append(buffer, event)

pushTabEventDropNewest(buffer, event) ==
  IF Len(buffer) >= TAB_EVENT_BUFFER_SIZE THEN buffer ELSE Append(buffer, event)

\* function pushTabEvent(event)
pushTabEvent(buffer, event) ==
  LET pushed == Append(buffer, event)
  IN  IF Len(pushed) > TAB_EVENT_BUFFER_SIZE THEN Tail(pushed) ELSE pushed

\* function pushWindowEvent(event)
pushWindowEvent(buffer, event) ==
  LET pushed == Append(buffer, event)
  IN  IF Len(pushed) > WINDOW_EVENT_BUFFER_SIZE THEN Tail(pushed) ELSE pushed

\* n >= 1 consecutive calls of a tab listener, recording events first,
\* first + 1, ...: the first half of the calls, then the second half
RECURSIVE TabListenerRun(_, _, _, _)
TabListenerRun(buffer, type, first, n) ==
  IF n = 1 THEN pushTabEvent(buffer, [type |-> type, seq |-> first])
  ELSE LET half == n \div 2
           sofar == TabListenerRun(buffer, type, first, half)
       IN  \* the test only makes TLC evaluate sofar before it goes on
           IF sofar = <<>> THEN TabListenerRun(<<>>, type, first + half, n - half)
           ELSE TabListenerRun(sofar, type, first + half, n - half)

\* n >= 1 consecutive calls of a window listener
RECURSIVE WindowListenerRun(_, _, _, _)
WindowListenerRun(buffer, type, first, n) ==
  IF n = 1 THEN pushWindowEvent(buffer, [type |-> type, seq |-> first])
  ELSE LET half == n \div 2
           sofar == WindowListenerRun(buffer, type, first, half)
       IN  \* the test only makes TLC evaluate sofar before it goes on
           IF sofar = <<>> THEN WindowListenerRun(<<>>, type, first + half, n - half)
           ELSE WindowListenerRun(sofar, type, first + half, n - half)

NoResponse == [action |-> "none", clear |-> FALSE, success |-> TRUE, data |-> <<>>]

Summary(r) == [action |-> r.action, clear |-> r.clear, len |-> Len(r.data)]

\* browser.tabs.onCreated / onUpdated / onRemoved listeners, n calls in a row
TabListenerCalls(type, n) ==
  /\ runs < MaxRuns
  /\ LET after == TabListenerRun(tabEventBuffer, type, tabRecorded + 1, n)
         kept  == Range(Ordinals(after))
     IN  /\ tabEventBuffer' = after
         /\ tabRecorded' = tabRecorded + n
         /\ tabEvicted' = tabEvicted \cup
              ((Range(Ordinals(tabEventBuffer)) \cup
                 ((tabRecorded + 1)..(tabRecorded + n))) \ kept)
  /\ runs' = runs + 1
  /\ response' = NoResponse
  /\ prevResponse' = Summary(response)
  /\ UNCHANGED <<windowEventBuffer, windowRecorded, tabDelivered, windowDelivered,
                 windowEvicted, tabClearedAt, windowClearedAt, messages>>

\* the browser reports n tab events of one type
TabListener(type, n) ==
  /\ TabListenerCalls(type, n)
  /\ UNCHANGED <<bridgeVars, waitVars, eventVars, commandVars, relayVars, asyncVars, extraVars>>

\* browser.windows.onCreated / onRemoved listeners, n calls in a row
WindowListenerCalls(type, n) ==
  /\ runs < MaxRuns
  /\ LET after == WindowListenerRun(windowEventBuffer, type, windowRecorded + 1, n)
         kept  == Range(Ordinals(after))
     IN  /\ windowEventBuffer' = after
         /\ windowRecorded' = windowRecorded + n
         /\ windowEvicted' = windowEvicted \cup
              ((Range(Ordinals(windowEventBuffer)) \cup
                 ((windowRecorded + 1)..(windowRecorded + n))) \ kept)
  /\ runs' = runs + 1
  /\ response' = NoResponse
  /\ prevResponse' = Summary(response)
  /\ UNCHANGED <<tabEventBuffer, tabRecorded, tabDelivered, windowDelivered,
                 tabEvicted, tabClearedAt, windowClearedAt, messages>>

\* the browser reports n window events of one type
WindowListener(type, n) ==
  /\ WindowListenerCalls(type, n)
  /\ UNCHANGED <<bridgeVars, waitVars, eventVars, commandVars, relayVars, asyncVars, extraVars>>

\* const events = [...tabEventBuffer]
Snapshot(buffer) == buffer

ClearedNever(buffer, clear) == buffer

ClearedKeepLast(buffer, clear) ==
  IF clear /\ buffer # <<>> THEN <<buffer[Len(buffer)]>> ELSE buffer

\* if (message.clear) { tabEventBuffer.length = 0; }
Cleared(buffer, clear) == IF clear THEN <<>> ELSE buffer

getTabEventsCaseClearsBoth(clear) ==
  /\ messages < MaxMessages
  /\ LET events == Snapshot(tabEventBuffer)
     IN  /\ tabEventBuffer' = Cleared(tabEventBuffer, clear)
         /\ windowEventBuffer' = Cleared(windowEventBuffer, clear)
         /\ response' = [action |-> "getTabEvents", clear |-> clear,
                         success |-> TRUE, data |-> events]
         /\ tabDelivered' = IF clear THEN tabDelivered \o Ordinals(events)
                            ELSE tabDelivered
         /\ tabClearedAt' = IF clear THEN tabRecorded ELSE tabClearedAt
  /\ prevResponse' = Summary(response)
  /\ messages' = messages + 1
  /\ UNCHANGED <<tabRecorded, windowRecorded, windowDelivered,
                 tabEvicted, windowEvicted, windowClearedAt, runs>>

\* case 'getTabEvents': the case body has no await, so the snapshot and the
\* clear run in one turn of the event loop, before or after any listener call
getTabEventsCase(clear) ==
  /\ messages < MaxMessages
  /\ LET events == Snapshot(tabEventBuffer)
     IN  /\ tabEventBuffer' = Cleared(tabEventBuffer, clear)
         /\ response' = [action |-> "getTabEvents", clear |-> clear,
                         success |-> TRUE, data |-> events]
         /\ tabDelivered' = IF clear THEN tabDelivered \o Ordinals(events)
                            ELSE tabDelivered
         /\ tabClearedAt' = IF clear THEN tabRecorded ELSE tabClearedAt
  /\ prevResponse' = Summary(response)
  /\ messages' = messages + 1
  /\ UNCHANGED <<windowEventBuffer, tabRecorded, windowRecorded, windowDelivered,
                 tabEvicted, windowEvicted, windowClearedAt, runs>>

\* a getTabEvents message from a test
getTabEvents(clear) ==
  /\ getTabEventsCase(clear)
  /\ UNCHANGED <<bridgeVars, waitVars, eventVars, commandVars, relayVars, asyncVars, extraVars>>

\* case 'getWindowEvents': one turn of the event loop as well
getWindowEventsCase(clear) ==
  /\ messages < MaxMessages
  /\ LET winEvents == Snapshot(windowEventBuffer)
     IN  /\ windowEventBuffer' = Cleared(windowEventBuffer, clear)
         /\ response' = [action |-> "getWindowEvents", clear |-> clear,
                         success |-> TRUE, data |-> winEvents]
         /\ windowDelivered' = IF clear THEN windowDelivered \o Ordinals(winEvents)
                               ELSE windowDelivered
         /\ windowClearedAt' = IF clear THEN windowRecorded ELSE windowClearedAt
  /\ prevResponse' = Summary(response)
  /\ messages' = messages + 1
  /\ UNCHANGED <<tabEventBuffer, tabRecorded, windowRecorded, tabDelivered,
                 tabEvicted, windowEvicted, tabClearedAt, runs>>

\* a getWindowEvents message from a test
getWindowEvents(clear) ==
  /\ getWindowEventsCase(clear)
  /\ UNCHANGED <<bridgeVars, waitVars, eventVars, commandVars, relayVars, asyncVars, extraVars>>

(***************************************************************************)
(* A test that keeps the array a non-clearing drain returned while the     *)
(* buffers go on changing. An array is known by its items and by whether   *)
(* it is the buffer itself or an array of its own.                         *)
(***************************************************************************)
NothingKept == [category |-> "none", shared |-> FALSE, items |-> <<>>]

CopyShared(category, buffer) ==
  [category |-> category, shared |-> TRUE, items |-> buffer]

\* const events = [...tabEventBuffer]: a new array with the same items
Copy(category, buffer) ==
  [category |-> category, shared |-> FALSE, items |-> buffer]

\* what the test reads in the array it keeps
Held(array, tabs, windows) ==
  IF ~array.shared THEN array.items
  ELSE IF array.category = "tab" THEN tabs ELSE windows

\* a test calls getTabEvents() without clear and keeps the result
KeepTabEvents ==
  /\ snapshot' = Copy("tab", tabEventBuffer)
  /\ getTabEventsCase(FALSE)
  /\ UNCHANGED <<driverVars, helloVars, cleanupVars>>
  /\ UNCHANGED <<bridgeVars, waitVars, eventVars, commandVars, relayVars, asyncVars>>

\* a test calls getWindowEvents() without clear and keeps the result
KeepWindowEvents ==
  /\ snapshot' = Copy("window", windowEventBuffer)
  /\ getWindowEventsCase(FALSE)
  /\ UNCHANGED <<driverVars, helloVars, cleanupVars>>
  /\ UNCHANGED <<bridgeVars, waitVars, eventVars, commandVars, relayVars, asyncVars>>

InitSnapshot == snapshot = NothingKept

InitBuf ==
  /\ tabEventBuffer = <<>>
  /\ windowEventBuffer = <<>>
  /\ response = NoResponse
  /\ prevResponse = Summary(NoResponse)
  /\ tabRecorded = 0
  /\ windowRecorded = 0
  /\ tabDelivered = <<>>
  /\ windowDelivered = <<>>
  /\ tabEvicted = {}
  /\ windowEvicted = {}
  /\ tabClearedAt = 0
  /\ windowClearedAt = 0
  /\ runs = 0
  /\ messages = 0

(***************************************************************************)
(* lib/test-bridge.js: the TestBridge client and the browser it drives.    *)
(*                                                                         *)
(* A page is known by what the client can observe of it:                   *)
(*   "http"          an http(s) page into which the content script has     *)
(*                   injected window.TestBridge                            *)
(*   "http-bare"     an http(s) page without window.TestBridge             *)
(*   "about:blank", "about:config"                                         *)
(*   "moz-extension" a page of an installed extension (manifest.json)      *)
(*   "test-api"      the bridge extension's own test-api.html, where       *)
(*                   extension/test-api.js defines window.TestBridge       *)
(***************************************************************************)
Pages == {"http", "http-bare", "about:blank", "about:config",
          "moz-extension", "test-api"}

\* currentUrl.startsWith('http://') || currentUrl.startsWith('https://')
IsHttp(page) == page \in {"http", "http-bare"}

\* typeof window.TestBridge !== 'undefined'
HasTestBridge(page) == page \in {"http", "test-api"}

\* the page driver.get(generateTestUrl(...)) ends on; up: the test server
\* answers and the bridge extension's content script runs in the page
TestPage(up) == IF up THEN "http" ELSE "http-bare"

\* the pages the test script itself navigates to
TestTargets == {"http", "about:blank", "moz-extension", "test-api"}

GuardedOps == {"ping", "getTabs"}

\* what the page's window.TestBridge answers to a command
Reply(op) == IF op = "ping" THEN "pong" ELSE "tabs"

Mode(rdy, ever) ==
  IF rdy THEN "Ready" ELSE IF ever THEN "Invalidated" ELSE "Uninitialized"

\* the client object and the driver it holds
Client == [ready |-> ready, pages |-> pages, focus |-> focus,
           lastTarget |-> lastTarget]

\* result of running a piece of client code from state c
Ran(c, thrown, url, inits, navs) ==
  [c |-> c, thrown |-> thrown, url |-> url, inits |-> inits, navs |-> navs]

initClearsFlagOnFailure(c, up) ==
  LET hosting == {i \in 1..Len(c.pages) : HasTestBridge(c.pages[i])}
  IN  IF hosting # {}
      THEN LET h == CHOOSE i \in hosting : \A j \in hosting : i <= j
           IN  Ran([c EXCEPT !.focus = h, !.ready = TRUE,
                             !.lastTarget = c.pages[h]],
                   "none", "none", 1, 0)
      ELSE LET h == Len(c.pages)
               landed == TestPage(up)
               moved == [c EXCEPT !.focus = h, !.pages[h] = landed,
                                  !.lastTarget = landed]
           IN  IF HasTestBridge(landed)
               THEN Ran([moved EXCEPT !.ready = TRUE], "none", "none", 1, 1)
               ELSE Ran([moved EXCEPT !.ready = FALSE], "InitTimeout", "none", 1, 1)

\* async init(); a window whose switchTo or executeScript throws is skipped
\* by the loop exactly like one without TestBridge
init(c, up) ==
  LET hosting == {i \in 1..Len(c.pages) : HasTestBridge(c.pages[i])}
  IN  IF hosting # {}
      THEN \* an existing window has TestBridge: stay switched to the first
           LET h == CHOOSE i \in hosting : \A j \in hosting : i <= j
           IN  Ran([c EXCEPT !.focus = h, !.ready = TRUE,
                             !.lastTarget = c.pages[h]],
                   "none", "none", 1, 0)
      ELSE \* the loop has switched to the last handle; navigate and wait
           LET h == Len(c.pages)
               landed == TestPage(up)
               moved == [c EXCEPT !.focus = h, !.pages[h] = landed,
                                  !.lastTarget = landed]
           IN  IF HasTestBridge(landed)
               THEN Ran([moved EXCEPT !.ready = TRUE], "none", "none", 1, 1)
               ELSE Ran(moved, "InitTimeout", "none", 1, 1)

ensureReadyAlwaysInit(c, up) == init(c, up)

ensureReadyNoInit(c, up) ==
  IF ~c.ready /\ c.pages[c.focus] = "http"
  THEN Ran([c EXCEPT !.ready = TRUE], "none", "none", 0, 0)
  ELSE IF ~c.ready THEN init(c, up)
  ELSE IF ~IsHttp(c.pages[c.focus])
       THEN Ran([c EXCEPT !.ready = FALSE], "NotHTTP", c.pages[c.focus], 0, 0)
       ELSE Ran(c, "none", "none", 0, 0)

ensureReadyFailFast(c, up) ==
  IF ~IsHttp(c.pages[c.focus])
  THEN Ran([c EXCEPT !.ready = FALSE], "NotHTTP", c.pages[c.focus], 0, 0)
  ELSE IF ~c.ready THEN init(c, up)
  ELSE Ran(c, "none", "none", 0, 0)

ensureReadyKeepsFlag(c, up) ==
  IF ~c.ready THEN init(c, up)
  ELSE IF ~IsHttp(c.pages[c.focus])
       THEN Ran(c, "NotHTTP", c.pages[c.focus], 0, 0)
       ELSE Ran(c, "none", "none", 0, 0)

\* async ensureReady()
ensureReady(c, up) ==
  IF ~c.ready THEN init(c, up)
  ELSE IF ~IsHttp(c.pages[c.focus])
       THEN Ran([c EXCEPT !.ready = FALSE], "NotHTTP", c.pages[c.focus], 0, 0)
       ELSE Ran(c, "none", "none", 0, 0)

\* await this.driver.get(url)
Navigate(c, page) ==
  [c EXCEPT !.pages[c.focus] = page, !.lastTarget = page]

\* async reset()
reset(c, up) ==
  LET r == init(Navigate(c, TestPage(up)), up)
  IN  Ran(r.c, r.thrown, r.url, r.inits, r.navs + 1)

getExtensionUuidsStaysReady(c, fails) ==
  LET moved == Navigate(c, "about:config")
  IN  IF fails THEN Ran(moved, "LookupFailed", "none", 0, 1)
      ELSE Ran(moved, "none", "none", 0, 1)

\* async _getExtensionUuids(); fails: the executeScript reading the
\* preference throws
getExtensionUuids(c, fails) ==
  LET moved == Navigate(c, "about:config")
  IN  IF fails THEN Ran(moved, "LookupFailed", "none", 0, 1)
      ELSE Ran([moved EXCEPT !.ready = FALSE], "none", "none", 0, 1)

\* the for loop of getExtensionUrlByName(name); opened: one of the
\* manifest.json pages of the installed extensions could be loaded
VisitManifests(c, opened) ==
  IF opened THEN Navigate(c, "moz-extension") ELSE c

NoOutcome ==
  [op |-> "none", status |-> "ok", error |-> "none", url |-> "none",
   value |-> "none", inits |-> 0, navs |-> 0, sent |-> FALSE,
   preMode |-> "Uninitialized", prePage |-> "about:blank",
   injects |-> TRUE, ready |-> FALSE, guard |-> "none"]

\* the record of a call of op that ran r and ended with value or an error
Outcome(op, up, r, error, value, sent) ==
  [op |-> op, status |-> IF error = "none" THEN "ok" ELSE "error",
   error |-> error, url |-> r.url, value |-> value,
   inits |-> r.inits, navs |-> r.navs, sent |-> sent,
   preMode |-> Mode(ready, everReady), prePage |-> pages[focus],
   \* up matters only to a call that ran init()
   injects |-> (r.inits = 0 \/ up), ready |-> r.c.ready,
   \* how the await this.ensureReady() that opens a guarded operation ended
   guard |-> IF op \notin GuardedOps THEN "none"
             ELSE IF r.thrown # "none" THEN "threw" ELSE "passed"]

\* what later steps remember of an outcome: the call, how it ended, whether
\* an init(), a reset() or a guarded operation was issued on an http(s)
\* page, and whether a reset() was issued with the flag true
Brief(o) ==
  [op |-> o.op, status |-> o.status,
   preHttp |-> (o.op \in {"init", "reset"} \cup GuardedOps /\ IsHttp(o.prePage)),
   preReady |-> (o.op = "reset" /\ o.preMode = "Ready")]

\* the client state after a call, and the record of the call
Finish(c, o) ==
  /\ ready' = c.ready
  /\ pages' = c.pages
  /\ focus' = c.focus
  /\ lastTarget' = c.lastTarget
  /\ everReady' = (everReady \/ c.ready)
  /\ httpSinceInit' = (/\ IsHttp(c.pages[c.focus])
                       /\ \/ (o.inits = 1 /\ o.error = "none")
                          \/ httpSinceInit)
  /\ outcome' = o
  /\ prev' = Brief(outcome)

\* the test calls bridge.init()
CallInit(up) ==
  /\ LET r == init(Client, up)
     IN  Finish(r.c, Outcome("init", up, r, r.thrown, "none", FALSE))
  /\ UNCHANGED <<bufVars, waitVars, eventVars, commandVars, relayVars, asyncVars, extraVars>>

\* the test calls bridge.reset()
CallReset(up) ==
  /\ LET r == reset(Client, up)
     IN  Finish(r.c, Outcome("reset", up, r, r.thrown, "none", FALSE))
  /\ UNCHANGED <<bufVars, waitVars, eventVars, commandVars, relayVars, asyncVars, extraVars>>

CallGuardedUnguarded(op, up) ==
  /\ LET r == Ran(Client, "none", "none", 0, 0)
         o == [Outcome(op, up, r, "none", "none", TRUE) EXCEPT !.guard = "none"]
     IN  IF HasTestBridge(pages[focus])
         THEN Finish(Client, [o EXCEPT !.value = Reply(op)])
         ELSE Finish(Client, [o EXCEPT !.status = "error", !.error = "NoTestBridge"])
  /\ UNCHANGED <<bufVars, waitVars, eventVars, commandVars, relayVars, asyncVars, extraVars>>

\* the test calls a guarded operation: ping(), getTabs(), ...
\*   await this.ensureReady();
\*   return await this.driver.executeScript(() => window.TestBridge.op());
CallGuarded(op, up) ==
  /\ ready => up      \* up is read only by the init() of a bridge not ready
  /\ LET r == ensureReady(Client, up)
     IN  IF r.thrown # "none"
         THEN Finish(r.c, Outcome(op, up, r, r.thrown, "none", FALSE))
         ELSE IF HasTestBridge(r.c.pages[r.c.focus])
              THEN Finish(r.c, Outcome(op, up, r, "none", Reply(op), TRUE))
              ELSE Finish(r.c, Outcome(op, up, r, "NoTestBridge", "none", TRUE))
  /\ UNCHANGED <<bufVars, waitVars, eventVars, commandVars, relayVars, asyncVars, extraVars>>

\* the test calls bridge.getExtensionUrl(extensionId)
CallGetExtensionUrl(known, fails) ==
  /\ fails => known   \* known is read only when the lookup does not throw
  /\ LET r == getExtensionUuids(Client, fails)
     IN  Finish(r.c, Outcome("getExtensionUrl", TRUE, r, r.thrown,
                             IF r.thrown # "none" THEN "none"
                             ELSE IF known THEN "moz-extension://uuid" ELSE "null",
                             FALSE))
  /\ UNCHANGED <<bufVars, waitVars, eventVars, commandVars, relayVars, asyncVars, extraVars>>

\* the test calls bridge.getExtensionUrlByName(name)
CallGetExtensionUrlByName(known, opened, fails) ==
  /\ fails => opened  \* opened is read only when the lookup does not throw
  /\ ~opened => known \* known is read only from a manifest that opened
  /\ fails => known
  /\ LET r == getExtensionUuids(Client, fails)
     IN  IF r.thrown # "none"
         THEN Finish(r.c, Outcome("getExtensionUrlByName", TRUE, r, r.thrown, "none", FALSE))
         ELSE LET c == VisitManifests(r.c, opened)
                  rr == Ran(c, "none", "none", 0, IF opened THEN 2 ELSE 1)
              IN  Finish(c, Outcome("getExtensionUrlByName", TRUE, rr, "none",
                                    IF known /\ opened THEN "moz-extension://uuid"
                                    ELSE "null", FALSE))
  /\ UNCHANGED <<bufVars, waitVars, eventVars, commandVars, relayVars, asyncVars, extraVars>>

\* a step of the test script or the environment that is not a TestBridge call
DriverStep ==
  /\ outcome' = [NoOutcome EXCEPT !.op = "driver", !.ready = ready]
  /\ prev' = Brief(outcome)
  /\ httpSinceInit' = (httpSinceInit /\ IsHttp(pages'[focus']))
  /\ UNCHANGED <<ready, everReady, lastTarget>>
  /\ UNCHANGED <<bufVars, waitVars, eventVars, commandVars, relayVars, asyncVars, extraVars>>

\* the test navigates the current window itself: browser.driver.get(url)
DriverGet(page) ==
  /\ page # pages[focus]
  /\ pages' = [pages EXCEPT ![focus] = page]
  /\ UNCHANGED focus
  /\ DriverStep

\* the test opens a tab: driver.switchTo().newWindow('tab')
NewWindow ==
  /\ Len(pages) < MaxWindows
  /\ pages' = Append(pages, "about:blank")
  /\ focus' = Len(pages) + 1
  /\ DriverStep

\* the test switches windows: driver.switchTo().window(handle)
SwitchTo(h) ==
  /\ h \in 1..Len(pages)
  /\ h # focus
  /\ focus' = h
  /\ UNCHANGED pages
  /\ DriverStep

InitBridge ==
  /\ ready = FALSE
  /\ pages = <<"about:blank">>
  /\ focus = 1
  /\ outcome = NoOutcome
  /\ prev = Brief(NoOutcome)
  /\ everReady = FALSE
  /\ lastTarget = "none"
  /\ httpSinceInit = FALSE

(***************************************************************************)
(* The waiters.                                                            *)
(*   waitForCondition          lib/test-helpers.js                         *)
(*   waitForTabCount, waitForWindowCount, waitForTabEvent, waitForTabLoad  *)
(*                             lib/test-bridge.js, loops in the client     *)
(*   waitForTabUrl             one request through the page relay to the   *)
(*                             loop of background.js                       *)
(*   waitFor                   the loop of the in-page window.TestBridge   *)
(* Times are in milliseconds.  A condition is known by its behaviour: its  *)
(* first throwUntil calls throw, from call trueAt on it yields value (never *)
(* when trueAt = 0), every call takes pollTime, and holds tells whether a   *)
(* count that matched still matches at the second read.                    *)
(***************************************************************************)
ClientWaiters == {"waitForCondition", "waitForTabCount", "waitForWindowCount",
                  "waitForTabEvent", "waitForTabLoad"}
Waiters == ClientWaiters \cup {"waitForTabUrl", "waitFor"}
CountWaiters == {"waitForTabCount", "waitForWindowCount"}

Timeouts == {-1, 0, ShortTimeout, LongTimeout}
\* the interval argument of waitForCondition: its default and a tighter one
Intervals == {250, 100}
PollTimes == {0, PollTime}
\* what a condition yields once it is satisfied: a payload or plain true
TruthyValues == {"done", "true"}

\* the timeout the loop compares against: message.timeout || 10000 in
\* background.js, timeout || 5000 in the in-page waitFor, the argument as
\* given elsewhere
EffectiveTimeout(waiter, timeout) ==
  IF waiter = "waitForTabUrl" /\ timeout = 0 THEN TAB_URL_DEFAULT_TIMEOUT
  ELSE IF waiter = "waitFor" /\ timeout = 0 THEN WAIT_FOR_DEFAULT_TIMEOUT
  ELSE timeout

\* the pause between two polls
Interval(waiter, interval) ==
  CASE waiter = "waitForCondition" -> interval
    [] waiter \in CountWaiters -> 1000
    [] waiter = "waitForTabEvent" -> 500
    [] waiter = "waitForTabLoad" -> 250
    [] waiter = "waitForTabUrl" -> 250
    [] waiter = "waitFor" -> 100

SwallowsNothing(waiter) == FALSE

\* the poll sits in a try/catch inside the loop
Swallows(waiter) == waiter \in ClientWaiters

TimeoutValueFalse(waiter) == "false"

\* the value after the loop: return null / return false
TimeoutValue(waiter) ==
  IF waiter \in CountWaiters \cup {"waitFor"} THEN "false" ELSE "null"

ReturnedCoerced(waiter, value) == "true"

\* the value returned from inside the loop for a poll that yielded value
Returned(waiter, value) ==
  IF waiter \in CountWaiters \cup {"waitFor"} THEN "true" ELSE value

\* while (Date.now() - startTime < timeout)
LoopContinues(e, timeout) == e < timeout

\* the i-th call of the condition
PollOutcome(w, i) ==
  IF i <= w.throwUntil THEN "throw"
  ELSE IF w.trueAt > 0 /\ i >= w.trueAt THEN "truthy"
  ELSE "falsy"

\* the call on which the condition first yields a truthy value, 0 if never
FirstTruthy(w) ==
  IF w.trueAt = 0 THEN 0
  ELSE IF w.trueAt > w.throwUntil THEN w.trueAt ELSE w.throwUntil + 1

\* the tabs browser.tabs.query({}) can list, and the url of each: a url is the
\* sequence of its characters, and the empty one stands for a tab whose url
\* the extension is not given
Tabs == {"tab1", "tab2", "tab3"}
Url == [t \in Tabs |->
          CASE t = "tab1" -> <<"a", "b">>
            [] t = "tab2" -> <<"b", "a", "b">>
            [] t = "tab3" -> <<>>]
\* the patterns a test waits for
Patterns == {<<"a", "b">>, <<"b", "a">>, <<"c">>}
\* what a poll can read: the open tabs in the order the browser lists them
TabLists ==
  {l \in UNION {[1..n -> Tabs] : n \in 0..Cardinality(Tabs)} :
     \A i, j \in 1..Len(l) : l[i] = l[j] => i = j}

\* String.prototype.includes
Includes(url, pattern) ==
  \E i \in 1..(Len(url) - Len(pattern) + 1) :
     SubSeq(url, i, i + Len(pattern) - 1) = pattern

\* allTabs.find(t => t.url && t.url.includes(message.pattern)), null for
\* no match
FirstMatch(allTabs, pattern) ==
  LET hits == {i \in 1..Len(allTabs) :
                 Url[allTabs[i]] # <<>> /\ Includes(Url[allTabs[i]], pattern)}
  IN  IF hits = {} THEN "null"
      ELSE allTabs[CHOOSE i \in hits : \A j \in hits : i <= j]

NoWait ==
  [waiter |-> "none", asked |-> 0, timeout |-> 0, interval |-> 0,
   trueAt |-> 0, throwUntil |-> 0, pollTime |-> 0, value |-> "done",
   holds |-> TRUE, pattern |-> <<>>]

\* the request of waitForTabUrl is still pending in the page's sendRequest
RelayPending == wait.waiter = "waitForTabUrl" => elapsed <= REQUEST_TIMEOUT

\* the waiter call ends
Done(value, error, at, count) ==
  /\ pc' = "done"
  /\ result' = value
  /\ raised' = error
  /\ elapsed' = at
  /\ polls' = count
  /\ seen' = <<>>
  /\ UNCHANGED wait

\* waitForTabUrl ends with the first match of the list it has just read
DoneMatch(allTabs, at, count) ==
  /\ pc' = "done"
  /\ result' = FirstMatch(allTabs, wait.pattern)
  /\ raised' = "none"
  /\ elapsed' = at
  /\ polls' = count
  /\ seen' = allTabs
  /\ UNCHANGED wait

\* the waiter call moves to another point of its loop
Goto(label, at, count) ==
  /\ pc' = label
  /\ elapsed' = at
  /\ polls' = count
  /\ UNCHANGED <<wait, result, raised, seen>>

\* a waiter is called with these arguments and this condition:
\* const startTime = Date.now()
CallWaiter(waiter, timeout, interval, trueAt, throwUntil, pollTime, value, holds) ==
  /\ waiter = "waitForCondition" \/ interval = 250
  /\ waiter \in CountWaiters \/ holds
  /\ waiter = "waitForTabUrl" => value = "done"
  /\ \E pattern \in IF waiter = "waitForTabUrl" THEN Patterns ELSE {<<>>} :
       \* the condition can turn true only if some tab list satisfies it
       /\ (waiter = "waitForTabUrl" /\ trueAt > 0)
            => \E l \in TabLists : FirstMatch(l, pattern) # "null"
       /\ wait' = [waiter |-> waiter, asked |-> timeout,
                   timeout |-> EffectiveTimeout(waiter, timeout),
                   interval |-> Interval(waiter, interval),
                   trueAt |-> trueAt, throwUntil |-> throwUntil,
                   pollTime |-> pollTime, value |-> value, holds |-> holds,
                   pattern |-> pattern]
  /\ pc' = "test"
  /\ elapsed' = 0
  /\ polls' = 0
  /\ result' = "pending"
  /\ raised' = "none"
  /\ seen' = <<>>
  /\ UNCHANGED <<bufVars, bridgeVars, eventVars, commandVars, relayVars, asyncVars, extraVars>>

\* the test calls one of the waiters
StartWait ==
  /\ pc = "idle"
  /\ \E waiter \in Waiters, timeout \in Timeouts, interval \in Intervals,
        trueAt \in 0..MaxTrueAt, throwUntil \in 0..MaxThrowUntil,
        pollTime \in PollTimes, value \in TruthyValues, holds \in BOOLEAN :
       CallWaiter(waiter, timeout, interval, trueAt, throwUntil, pollTime,
                  value, holds)

\* the loop condition, and the return after the loop
LoopTest ==
  /\ pc = "test"
  /\ RelayPending
  /\ IF LoopContinues(elapsed, wait.timeout)
     THEN Goto("poll", elapsed, polls)
     ELSE Done(TimeoutValue(wait.waiter), "none", elapsed, polls)
  /\ UNCHANGED <<bufVars, bridgeVars, eventVars, commandVars, relayVars, asyncVars, extraVars>>

\* one call of the condition: await conditionFn(), await this.getTabs(),
\* await browser.tabs.query({}), ...
Poll ==
  /\ pc = "poll"
  /\ RelayPending
  /\ LET i == polls + 1
         at == elapsed + wait.pollTime
         o == PollOutcome(wait, i)
     IN  CASE o = "throw" ->
                IF Swallows(wait.waiter) THEN Goto("sleep", at, i)
                ELSE Done("none", "PollError", at, i)
           [] o = "truthy" ->
                IF wait.waiter \in CountWaiters THEN Goto("settle", at, i)
                ELSE IF wait.waiter = "waitForTabUrl"
                THEN \E allTabs \in TabLists :
                        /\ FirstMatch(allTabs, wait.pattern) # "null"
                        /\ DoneMatch(allTabs, at, i)
                ELSE Done(Returned(wait.waiter, wait.value), "none", at, i)
           [] o = "falsy" -> Goto("sleep", at, i)
  /\ UNCHANGED <<bufVars, bridgeVars, eventVars, commandVars, relayVars, asyncVars, extraVars>>

\* count waiters: await sleep(2000) once the count matches
Settle ==
  /\ pc = "settle"
  /\ Goto("verify", elapsed + SETTLE_DELAY, polls)
  /\ UNCHANGED <<bufVars, bridgeVars, eventVars, commandVars, relayVars, asyncVars, extraVars>>

VerifySkipped ==
  /\ pc = "verify"
  /\ Done(Returned(wait.waiter, wait.value), "none", elapsed, polls)
  /\ UNCHANGED <<bufVars, bridgeVars, eventVars, commandVars, relayVars, asyncVars, extraVars>>

\* count waiters: the second read, const verifyTabs = await this.getTabs();
\* holds is false when the second read differs from the target or throws,
\* and both lead to the sleep(1000) that precedes the next poll
Verify ==
  /\ pc = "verify"
  /\ LET at == elapsed + wait.pollTime
     IN  IF wait.holds
         THEN Done(Returned(wait.waiter, wait.value), "none", at, polls + 1)
         ELSE Goto("sleep", at, polls + 1)
  /\ UNCHANGED <<bufVars, bridgeVars, eventVars, commandVars, relayVars, asyncVars, extraVars>>

\* await sleep(interval)
Sleep ==
  /\ pc = "sleep"
  /\ RelayPending
  /\ Goto("test", elapsed + wait.interval, polls)
  /\ UNCHANGED <<bufVars, bridgeVars, eventVars, commandVars, relayVars, asyncVars, extraVars>>

\* the timer of sendRequest fires while the request of waitForTabUrl is
\* pending: reject(new Error('Request timed out'))
RelayTimeout ==
  /\ wait.waiter = "waitForTabUrl"
  /\ pc \in {"test", "poll", "sleep"}
  /\ elapsed >= REQUEST_TIMEOUT
  /\ Done("none", "Request timed out", REQUEST_TIMEOUT, polls)
  /\ UNCHANGED <<bufVars, bridgeVars, eventVars, commandVars, relayVars, asyncVars, extraVars>>

\* the caller has taken the result; the locals of the call are gone
WaitReturns ==
  /\ pc = "done"
  /\ wait' = NoWait
  /\ pc' = "idle"
  /\ elapsed' = 0
  /\ polls' = 0
  /\ result' = "pending"
  /\ raised' = "none"
  /\ seen' = <<>>
  /\ UNCHANGED <<bufVars, bridgeVars, eventVars, commandVars, relayVars, asyncVars, extraVars>>

InitWait ==
  /\ wait = NoWait
  /\ pc = "idle"
  /\ elapsed = 0
  /\ polls = 0
  /\ result = "pending"
  /\ raised = "none"
  /\ seen = <<>>

(***************************************************************************)
(* lib/test-bridge.js: waitForTabEvent polling the tab event buffer of the *)
(* background script. The loop test is a choice here: the clock of the     *)
(* waiters is the subject of SpecWait.                                     *)
(***************************************************************************)
NoEvent == [type |-> "none", seq |-> 0]

\* wanted is the ordinal of the latest event of the wanted type recorded
\* since the call began (0 for none), polledAt the number of tab events
\* recorded when the latest poll took place
NotSeeking ==
  [status |-> "idle", event |-> NoEvent, polls |-> 0, saw |-> FALSE,
   wanted |-> 0, polledAt |-> 0]

LastOfType(events, eventType) ==
  LET matching == SelectSeq(events, LAMBDA e : e.type = eventType)
  IN  IF matching = <<>> THEN NoEvent ELSE matching[Len(matching)]

\* events.find(e => e.type === eventType), NoEvent for undefined
FirstOfType(events, eventType) ==
  LET matching == SelectSeq(events, LAMBDA e : e.type = eventType)
  IN  IF matching = <<>> THEN NoEvent ELSE Head(matching)

\* bridge.waitForTabEvent(eventType, timeout): const startTime = Date.now()
CallWaitForTabEvent(eventType) ==
  /\ found.status # "pending"
  /\ seeking' = eventType
  /\ found' = [NotSeeking EXCEPT !.status = "pending"]
  /\ UNCHANGED <<bufVars, bridgeVars, waitVars, commandVars, relayVars, asyncVars, extraVars>>

\* one turn of the loop: const events = await this.getTabEvents() without
\* the clear argument, the find, and either the return or the sleep(500)
PollTabEvent ==
  /\ found.status = "pending"
  /\ getTabEventsCase(FALSE)
  /\ LET events == response'.data
         match == FirstOfType(events, seeking)
     IN  found' = [status |-> IF match # NoEvent THEN "returned" ELSE "pending",
                   event |-> match,
                   polls |-> found.polls + 1,
                   saw |-> (found.saw \/ \E e \in Range(events) : e.type = seeking),
                   wanted |-> found.wanted,
                   polledAt |-> tabRecorded]
  /\ UNCHANGED seeking
  /\ UNCHANGED <<bridgeVars, waitVars, commandVars, relayVars, asyncVars, extraVars>>

\* the browser reports n tab events of one type while a test may be waiting
\* for an event
TabListenerWhileWaiting(type, n) ==
  /\ TabListenerCalls(type, n)
  /\ found' = IF found.status = "pending" /\ type = seeking
              THEN [found EXCEPT !.wanted = tabRecorded + n]
              ELSE found
  /\ UNCHANGED seeking
  /\ UNCHANGED <<bridgeVars, waitVars, commandVars, relayVars, asyncVars, extraVars>>

\* the loop test fails: return null
TabEventTimeout ==
  /\ found.status = "pending"
  /\ found' = [found EXCEPT !.status = "null"]
  /\ UNCHANGED seeking
  /\ UNCHANGED <<bufVars, bridgeVars, waitVars, commandVars, relayVars, asyncVars, extraVars>>

InitEvent ==
  /\ seeking = "none"
  /\ found = NotSeeking

(***************************************************************************)
(* One command at a time, from the page to the background script and back: *)
(* through the content script relay of an http page, or through bgCall of  *)
(* the extension's own page (extension/test-api.js).                       *)
(*                                                                         *)
(* A JavaScript value is a record tagged by is; a reply object of the form *)
(* {success, data, error} carries those three fields. An error text is a   *)
(* string, NoText for a field that is absent or undefined.                 *)
(***************************************************************************)
NoText == "<undefined>"
Undefined == [is |-> "undefined"]
Pong == [is |-> "string", text |-> "pong"]
ScriptResult == [is |-> "string", text |-> "result"]
Array(items) == [is |-> "array", items |-> items]
Object(success, data, error) ==
  [is |-> "object", success |-> success, data |-> data, error |-> error]

\* if (error), bgResponse.error as a condition
Truthy(text) == text \notin {NoText, ""}

\* the replies of the extension a message is forwarded to
ExtensionReplies ==
  {Undefined,
   Object(TRUE, Pong, NoText),
   Object(FALSE, Undefined, "Unknown action"),
   Object(FALSE, Undefined, "")}

Channels == {"relay", "api"}
\* content script: const BG_ACTIONS = new Set([...]), the members modelled
BG_ACTIONS == {"executeInTab", "forwardToExtension", "getTabEvents"}
Actions == BG_ACTIONS \cup {"ping", "bogus"}
KnownActions == BG_ACTIONS \cup {"ping"}

\* what the browser does with the command: ok and a value, or a rejection
\* with a message; clear is the argument of getTabEvents
NoArg == [ok |-> TRUE, value |-> Undefined, message |-> NoText, clear |-> FALSE]
Arguments(action) ==
  CASE action = "getTabEvents" ->
         {[NoArg EXCEPT !.clear = c] : c \in BOOLEAN}
    [] action = "executeInTab" ->
         {[NoArg EXCEPT !.value = ScriptResult]} \cup
         {[NoArg EXCEPT !.ok = FALSE, !.message = m] :
            m \in {"Script error", "", NoText}}
    [] action = "forwardToExtension" ->
         {[NoArg EXCEPT !.value = r] : r \in ExtensionReplies} \cup
         {[NoArg EXCEPT !.ok = FALSE, !.message = m] :
            m \in {"Could not establish connection", ""}}
    [] OTHER -> {NoArg}

NotAsked == [asked |-> FALSE, success |-> TRUE, data |-> Undefined, error |-> NoText]
Success(data) == [asked |-> TRUE, success |-> TRUE, data |-> data, error |-> NoText]
Failure(error) == [asked |-> TRUE, success |-> FALSE, data |-> Undefined, error |-> error]

onMessageUnwrapsReply(action, arg) ==
  CASE action = "ping" -> Success(Pong)
    [] action = "forwardToExtension" ->
         IF ~arg.ok THEN Failure("Extension not responding: " \o arg.message)
         ELSE IF arg.value = Undefined THEN Success(Undefined)
         ELSE [asked |-> TRUE, success |-> arg.value.success,
               data |-> arg.value.data, error |-> arg.value.error]
    [] action = "executeInTab" ->
         IF arg.ok THEN Success(arg.value) ELSE Failure(arg.message)
    [] OTHER -> Failure("Unknown action: " \o action)

onMessageDefaultSucceeds(action, arg) ==
  CASE action = "ping" -> Success(Pong)
    [] action = "forwardToExtension" ->
         IF arg.ok THEN Success(arg.value)
         ELSE Failure("Extension not responding: " \o arg.message)
    [] action = "executeInTab" ->
         IF arg.ok THEN Success(arg.value) ELSE Failure(arg.message)
    [] OTHER -> Success(Undefined)

\* background.js: browser.runtime.onMessage.addListener(async (message) => ...)
\* for the cases that leave the buffers alone; a rejection of the browser
\* call ends in the outer catch, error: error.message
onMessage(action, arg) ==
  CASE action = "ping" -> Success(Pong)
    [] action = "forwardToExtension" ->
         IF arg.ok THEN Success(arg.value)
         ELSE Failure("Extension not responding: " \o arg.message)
    [] action = "executeInTab" ->
         IF arg.ok THEN Success(arg.value) ELSE Failure(arg.message)
    [] OTHER -> Failure("Unknown action: " \o action)

\* a bridge-response message
Response(value, error) == [response |-> value, error |-> error]

\* content script: the bridge-request listener, given the answer of the
\* background script; it posts either response or error: error.message
contentScript(action, bgResponse) ==
  IF action = "ping" THEN Response(Pong, NoText)
  ELSE IF action \in BG_ACTIONS
  THEN IF bgResponse.success THEN Response(bgResponse.data, NoText)
       ELSE IF Truthy(bgResponse.error) THEN Response(Undefined, bgResponse.error)
       ELSE Response(Object(bgResponse.success, bgResponse.data, bgResponse.error),
                     NoText)
  ELSE Response(Undefined, "Unknown action: " \o action)

Resolved(value) == [kind |-> "value", value |-> value, message |-> NoText]
Rejected(message) == [kind |-> "error", value |-> Undefined, message |-> message]

\* page script: if (error) reject(new Error(error)); else resolve(response)
settle(message) ==
  IF Truthy(message.error) THEN Rejected(message.error)
  ELSE Resolved(message.response)

\* new Error(text).message
ErrorMessage(text) == IF text = NoText THEN "" ELSE text

\* test-api.js: if (!response.success) throw new Error(response.error);
\* return response.data
bgCall(bgResponse) ==
  IF ~bgResponse.success THEN Rejected(ErrorMessage(bgResponse.error))
  ELSE Resolved(bgResponse.data)

NoCall == [channel |-> "none", action |-> "none", arg |-> NoArg]

\* the test makes one command and awaits its outcome
Command(channel, action, arg) ==
  LET asks == channel = "api" \/ action \in BG_ACTIONS
  IN  /\ call' = [channel |-> channel, action |-> action, arg |-> arg]
      /\ IF asks /\ action = "getTabEvents"
         THEN /\ getTabEventsCase(arg.clear)
              /\ answer' = Success(Array(response'.data))
         ELSE /\ answer' = IF asks THEN onMessage(action, arg) ELSE NotAsked
              /\ UNCHANGED bufVars
      /\ returned' = IF channel = "api" THEN bgCall(answer')
                     ELSE settle(contentScript(action, answer'))
      /\ UNCHANGED <<bridgeVars, waitVars, eventVars, relayVars, asyncVars, extraVars>>

InitCommand ==
  /\ call = NoCall
  /\ answer = NotAsked
  /\ returned = Resolved(Undefined)

(***************************************************************************)
(* The page relay with several requests outstanding: sendRequest and the   *)
(* bridge-response listener of the page script, the bridge-request          *)
(* listener of the content script, and the 15 s timer of each request.     *)
(* The clock is left out: a timer may fire at any point after its request. *)
(***************************************************************************)
\* the requests the page makes here, each with an outcome of its own
RelayRequests ==
  {[action |-> "ping", arg |-> NoArg],
   [action |-> "executeInTab", arg |-> [NoArg EXCEPT !.value = ScriptResult]],
   [action |-> "executeInTab",
    arg |-> [NoArg EXCEPT !.ok = FALSE, !.message = "Script error"]],
   [action |-> "bogus", arg |-> NoArg]}

TimedOut == Rejected("Request timed out")

\* page script: function sendRequest(action, data)
sendRequest(action, arg) ==
  /\ requestId < MaxRequests
  /\ LET id == requestId + 1
     IN  /\ requestId' = id
         /\ pendingRequests' = pendingRequests \cup {id}
         /\ requests' = requests \cup {[id |-> id, action |-> action, arg |-> arg]}
         /\ timers' = timers \cup {id}
         /\ made' = Append(made, [action |-> action, arg |-> arg])
  /\ UNCHANGED <<responses, settled>>
  /\ UNCHANGED <<bufVars, bridgeVars, waitVars, eventVars, commandVars, asyncVars, extraVars>>

\* content script: the bridge-request listener handles one request, asks
\* the background script where the action calls for it, and posts the
\* bridge-response with the id of the request
relayRequest(m) ==
  /\ m \in requests
  /\ requests' = requests \ {m}
  /\ LET asks == m.action \in BG_ACTIONS
         bgResponse == IF asks THEN onMessage(m.action, m.arg) ELSE NotAsked
         posted == contentScript(m.action, bgResponse)
     IN  responses' = responses \cup
           {[id |-> m.id, response |-> posted.response, error |-> posted.error]}
  /\ UNCHANGED <<requestId, pendingRequests, timers, made, settled>>
  /\ UNCHANGED <<bufVars, bridgeVars, waitVars, eventVars, commandVars, asyncVars, extraVars>>

onResponseKeepsPending(m) ==
  /\ m \in responses
  /\ responses' = responses \ {m}
  /\ IF m.id \in pendingRequests
     THEN /\ pendingRequests' = pendingRequests
          /\ settled' = Append(settled, [id |-> m.id, outcome |-> settle(m)])
     ELSE UNCHANGED <<pendingRequests, settled>>
  /\ UNCHANGED <<requestId, requests, timers, made>>
  /\ UNCHANGED <<bufVars, bridgeVars, waitVars, eventVars, commandVars, asyncVars, extraVars>>

onResponseSettlesOldest(m) ==
  /\ m \in responses
  /\ responses' = responses \ {m}
  /\ IF pendingRequests # {}
     THEN LET id == CHOOSE i \in pendingRequests : \A j \in pendingRequests : i <= j
          IN  /\ pendingRequests' = pendingRequests \ {id}
              /\ settled' = Append(settled, [id |-> id, outcome |-> settle(m)])
     ELSE UNCHANGED <<pendingRequests, settled>>
  /\ UNCHANGED <<requestId, requests, timers, made>>
  /\ UNCHANGED <<bufVars, bridgeVars, waitVars, eventVars, commandVars, asyncVars, extraVars>>

\* page script: the message listener takes a bridge-response;
\* const { resolve, reject } = pendingRequests.get(id) || {}; if (resolve) ...
onResponse(m) ==
  /\ m \in responses
  /\ responses' = responses \ {m}
  /\ IF m.id \in pendingRequests
     THEN /\ pendingRequests' = pendingRequests \ {m.id}
          /\ settled' = Append(settled, [id |-> m.id, outcome |-> settle(m)])
     ELSE UNCHANGED <<pendingRequests, settled>>
  /\ UNCHANGED <<requestId, requests, timers, made>>
  /\ UNCHANGED <<bufVars, bridgeVars, waitVars, eventVars, commandVars, asyncVars, extraVars>>

\* page script: the setTimeout callback of sendRequest;
\* if (pendingRequests.has(id)) { delete; reject('Request timed out') }
onTimeout(id) ==
  /\ id \in timers
  /\ timers' = timers \ {id}
  /\ IF id \in pendingRequests
     THEN /\ pendingRequests' = pendingRequests \ {id}
          /\ settled' = Append(settled, [id |-> id, outcome |-> TimedOut])
     ELSE UNCHANGED <<pendingRequests, settled>>
  /\ UNCHANGED <<requestId, requests, responses, made>>
  /\ UNCHANGED <<bufVars, bridgeVars, waitVars, eventVars, commandVars, asyncVars, extraVars>>

\* the next bridge-request message reaches the content script
RequestListener == \E m \in requests : relayRequest(m)

\* the next bridge-response message reaches the page script
ResponseListener == \E m \in responses : onResponse(m)

\* the timer of one of the requests fires
RequestTimer == \E id \in timers : onTimeout(id)

InitRelay ==
  /\ requestId = 0
  /\ pendingRequests = {}
  /\ requests = {}
  /\ responses = {}
  /\ timers = {}
  /\ made = <<>>
  /\ settled = <<>>

(***************************************************************************)
(* lib/test-bridge.js: guarded operations started without awaiting one     *)
(* another. An async function runs up to its first await when it is        *)
(* called, and the calls then advance one await at a time, in any order.   *)
(* The browser is left out here: what a WebDriver command finds is an      *)
(* input of the step that awaits it.                                       *)
(***************************************************************************)
\* where a started operation stands:
\*   "scan"      in init(), going through the window handles
\*   "navigate"  in init(), awaiting this.driver.get(url)
\*   "inject"    in init(), awaiting this.driver.wait(...)
\*   "checkUrl"  in ensureReady(), awaiting this.driver.getCurrentUrl()
\*   "command"   past ensureReady(), awaiting this.driver.executeScript(...)
InitPoints == {"scan", "navigate", "inject"}
NavigationPoints == {"navigate", "inject"}

InitsInProgress == Cardinality({i \in 1..MaxOps : ops[i] \in InitPoints})
NavigationsInProgress == Cardinality({i \in 1..MaxOps : ops[i] \in NavigationPoints})

\* an operation of the test moves on; the flag is the only field it shares
Advance(i, point, flag) ==
  /\ ops' = [ops EXCEPT ![i] = point]
  /\ ready' = flag
  /\ everReady' = (everReady \/ flag)
  /\ UNCHANGED <<pages, focus, outcome, prev, lastTarget, httpSinceInit>>
  /\ UNCHANGED <<bufVars, waitVars, eventVars, commandVars, relayVars, extraVars>>

\* the test calls a guarded operation and does not await it: ensureReady()
\* runs up to its first await, inside init() when the flag is false
StartGuarded(i) ==
  /\ ops[i] = "unstarted"
  /\ \A j \in 1..(i - 1) : ops[j] # "unstarted"
  /\ Advance(i, IF ready THEN "checkUrl" ELSE "scan", ready)

\* init(): the loop over the window handles ends, with or without a window
\* that has the TestBridge
InitScan(i, hasTestBridge) ==
  /\ ops[i] = "scan"
  /\ IF hasTestBridge THEN Advance(i, "command", TRUE)
     ELSE Advance(i, "navigate", ready)

\* init(): await this.driver.get(url) ends
InitNavigate(i) ==
  /\ ops[i] = "navigate"
  /\ Advance(i, "inject", ready)

\* init(): await this.driver.wait(...) ends, or times out and throws
InitInject(i, up) ==
  /\ ops[i] = "inject"
  /\ IF up THEN Advance(i, "command", TRUE) ELSE Advance(i, "failed", ready)

\* ensureReady(): the check of the current url
CheckUrl(i, http) ==
  /\ ops[i] = "checkUrl"
  /\ IF http THEN Advance(i, "command", ready) ELSE Advance(i, "failed", FALSE)

\* the command of the operation itself ends
RunCommand(i) ==
  /\ ops[i] = "command"
  /\ Advance(i, "done", ready)

\* the test awaits the operations it has started, and goes on
AwaitAll ==
  /\ \A i \in 1..MaxOps : ops[i] \in {"done", "failed"}
  /\ ops' = [i \in 1..MaxOps |-> "unstarted"]
  /\ UNCHANGED <<bufVars, bridgeVars, waitVars, eventVars, commandVars, relayVars, extraVars>>

InitAsync == ops = [i \in 1..MaxOps |-> "unstarted"]

(***************************************************************************)
(* The hello-world extension, driven through sendToExtension and           *)
(* clickBrowserAction.                                                     *)
(***************************************************************************)

Number(n) == [is |-> "number", n |-> n]
Text(t) == [is |-> "string", text |-> t]

\* the message.action of the payloads the test sends; greet is sent without
\* a name
HelloActions == {"ping", "greet", "getCounter", "increment", "nonexistent"}

\* hello-world background.js: browser.runtime.onMessageExternal listener;
\* the counter after the message, and the reply
helloOnMessage(action, c) ==
  CASE action = "ping" ->
         [counter |-> c, reply |-> Object(TRUE, Text("hello world"), NoText)]
    [] action = "greet" ->
         [counter |-> c, reply |-> Object(TRUE, Text("Hello, stranger!"), NoText)]
    [] action = "getCounter" ->
         [counter |-> c, reply |-> Object(TRUE, Number(c), NoText)]
    [] action = "increment" ->
         [counter |-> c + 1, reply |-> Object(TRUE, Number(c + 1), NoText)]
    [] OTHER ->
         [counter |-> c,
          reply |-> Object(FALSE, Undefined, "Unknown action: " \o action)]

DeliverTwice(action, c) ==
  helloOnMessage(action, helloOnMessage(action, c).counter)

\* background.js, case 'forwardToExtension': one
\* browser.runtime.sendMessage(message.targetExtensionId, message.payload)
Deliver(action, c) == helloOnMessage(action, c)

clickBrowserActionNoFinally(ctx, switches, panel, present) ==
  IF ~switches
  THEN [context |-> ctx, clicked |-> FALSE, outcome |-> Rejected("setContext failed")]
  ELSE IF ~panel
  THEN [context |-> "chrome", clicked |-> FALSE,
        outcome |-> Rejected("unified-extensions-button is null")]
  ELSE IF ~present
  THEN [context |-> "chrome", clicked |-> FALSE,
        outcome |-> Rejected("Extension button nonexistent_example_com-BAP not present in panel")]
  ELSE [context |-> "content", clicked |-> TRUE, outcome |-> Resolved(Undefined)]

\* test-bridge.js: async clickBrowserAction(extensionId), started in context
\* ctx. switches: the driver accepts the setContext command; panel: the
\* toolbar has the unified extensions button; present: the panel has the
\* button of the extension. The context the driver is left in, whether the
\* button was clicked, and how the call ends.
clickBrowserAction(ctx, switches, panel, present) ==
  IF ~switches
  THEN [context |-> ctx, clicked |-> FALSE, outcome |-> Rejected("setContext failed")]
  ELSE IF ~panel
  THEN [context |-> "content", clicked |-> FALSE,
        outcome |-> Rejected("unified-extensions-button is null")]
  ELSE IF ~present
  THEN [context |-> "content", clicked |-> FALSE,
        outcome |-> Rejected("Extension button nonexistent_example_com-BAP not present in panel")]
  ELSE [context |-> "content", clicked |-> TRUE, outcome |-> Resolved(Undefined)]

NoReply ==
  [seq |-> 0, op |-> "none", action |-> "none", before |-> 0,
   prevOp |-> "none", prevKind |-> "value", outcome |-> Resolved(Undefined)]

\* the record of a sendToExtension call and how it ended
Sent(action, ended) ==
  [seq |-> reply.seq + 1, op |-> "sendToExtension", action |-> action,
   before |-> counter, prevOp |-> reply.op, prevKind |-> reply.outcome.kind,
   outcome |-> ended]

\* the test awaits sendToExtension(targetExtensionId, payload): the guard,
\* then window.TestBridge.forwardToExtension in the page. In the chrome
\* context the current URL is not an http(s) one and the script finds no
\* window.TestBridge.
SendToExtension(action, up) ==
  /\ reply.seq < MaxCalls
  /\ ready => up
  /\ LET r == ensureReady(Client, up)
         d == Deliver(action, counter)
         arg == [NoArg EXCEPT !.value = d.reply]
         o == Outcome("sendToExtension", up, r, r.thrown, "none", FALSE)
     IN  IF context # "content"
         THEN /\ Finish(Client, [o EXCEPT !.status = "error", !.error = "NotHTTP"])
              /\ reply' = Sent(action, Rejected("NotHTTP"))
              /\ UNCHANGED <<counter, asked, received>>
         ELSE IF r.thrown # "none"
         THEN /\ Finish(r.c, o)
              /\ reply' = Sent(action, Rejected(r.thrown))
              /\ UNCHANGED <<counter, asked, received>>
         ELSE IF ~HasTestBridge(r.c.pages[r.c.focus])
         THEN /\ Finish(r.c, [o EXCEPT !.status = "error",
                                       !.error = "NoTestBridge", !.sent = TRUE])
              /\ reply' = Sent(action, Rejected("NoTestBridge"))
              /\ UNCHANGED <<counter, asked, received>>
         ELSE /\ Finish(r.c, [o EXCEPT !.sent = TRUE])
              /\ counter' = d.counter
              /\ asked' = Append(asked, action)
              /\ received' = Append(received, action)
              /\ reply' = Sent(action,
                               settle(contentScript("forwardToExtension",
                                        onMessage("forwardToExtension", arg))))
  /\ UNCHANGED <<context, clicked>>
  /\ UNCHANGED <<snapshotVars, cleanupVars>>
  /\ UNCHANGED <<bufVars, waitVars, eventVars, commandVars, relayVars, asyncVars>>

\* the test awaits clickBrowserAction(extensionId); a click on the button of
\* the hello-world extension runs its browserAction.onClicked listener:
\* counter++
CallClickBrowserAction(switches, panel, present) ==
  LET r == clickBrowserAction(context, switches, panel, present)
  IN  /\ reply.seq < MaxCalls
      /\ context' = r.context
      /\ counter' = IF r.clicked THEN counter + 1 ELSE counter
      /\ clicked' = IF r.clicked THEN clicked + 1 ELSE clicked
      /\ reply' = [seq |-> reply.seq + 1, op |-> "clickBrowserAction",
                   action |-> "none", before |-> counter,
                   prevOp |-> reply.op, prevKind |-> reply.outcome.kind,
                   outcome |-> r.outcome]
      /\ UNCHANGED <<asked, received>>
      /\ UNCHANGED <<snapshotVars, cleanupVars>>
      /\ UNCHANGED <<bufVars, bridgeVars, waitVars, eventVars, commandVars, relayVars, asyncVars>>

InitDriver == context = "content"

InitHello ==
  /\ counter = 0
  /\ asked = <<>>
  /\ received = <<>>
  /\ clicked = 0
  /\ reply = NoReply

(***************************************************************************)
(* launchBrowser and cleanupBrowser.                                       *)
(***************************************************************************)

\* a browser object: made is how the test got it; driver is "none" when the
\* object has no driver; dir is "none" when it has no profilePath
NotLaunched == [made |-> "none", driver |-> "none", dir |-> "none"]
\* launchBrowser: return { driver, testBridge, profilePath }
Launched == [made |-> "launched", driver |-> "running", dir |-> "exists"]
\* a browser the test set up itself: an object with a driver only
Manual == [made |-> "manual", driver |-> "running", dir |-> "none"]

NoCleanup ==
  [turn |-> FALSE, arg |-> "none", thrown |-> FALSE, quitAttempted |-> FALSE,
   quitFailed |-> FALSE, removeAttempted |-> FALSE, removeFailed |-> FALSE,
   before |-> NotLaunched, after |-> NotLaunched]

cleanupBrowserStopsAtQuit(b, quitFails, rmFails) ==
  LET quits == b.driver # "none"
      stops == quits /\ quitFails
      removes == ~stops /\ b.dir = "exists"
  IN  [NoCleanup EXCEPT
         !.arg = "browser",
         !.quitAttempted = quits,
         !.quitFailed = stops,
         !.removeAttempted = removes,
         !.removeFailed = removes /\ rmFails,
         !.before = b,
         !.after = [b EXCEPT
                      !.driver = IF quits /\ ~quitFails THEN "quit" ELSE @,
                      !.dir = IF removes /\ ~rmFails THEN "removed" ELSE @]]

\* cleanupBrowser(browser) for an object; quitFails: browser.driver.quit()
\* rejects; rmFails: fs.rmSync throws. Both are caught and logged.
cleanupBrowser(b, quitFails, rmFails) ==
  LET quits == b.driver # "none"
      removes == b.dir = "exists"
  IN  [NoCleanup EXCEPT
         !.arg = "browser",
         !.quitAttempted = quits,
         !.quitFailed = quits /\ quitFails,
         !.removeAttempted = removes,
         !.removeFailed = removes /\ rmFails,
         !.before = b,
         !.after = [b EXCEPT
                      !.driver = IF quits /\ ~quitFails THEN "quit" ELSE @,
                      !.dir = IF removes /\ ~rmFails THEN "removed" ELSE @]]

\* const browser = await launchBrowser(...)
LaunchBrowser(i) ==
  /\ browsers[i] = NotLaunched
  /\ browsers' = [browsers EXCEPT ![i] = Launched]
  /\ UNCHANGED cleanup
  /\ UNCHANGED <<snapshotVars, driverVars, helloVars>>
  /\ UNCHANGED <<bufVars, bridgeVars, waitVars, eventVars, commandVars, relayVars, asyncVars>>

\* the test builds its own driver and wraps it: { driver }
OwnBrowser(i) ==
  /\ browsers[i] = NotLaunched
  /\ browsers' = [browsers EXCEPT ![i] = Manual]
  /\ UNCHANGED cleanup
  /\ UNCHANGED <<snapshotVars, driverVars, helloVars>>
  /\ UNCHANGED <<bufVars, bridgeVars, waitVars, eventVars, commandVars, relayVars, asyncVars>>

\* await cleanupBrowser(browser) with browser null or undefined:
\* if (!browser) return
CleanupNothing(arg) ==
  /\ cleanup' = [NoCleanup EXCEPT !.turn = ~cleanup.turn, !.arg = arg]
  /\ UNCHANGED browsers
  /\ UNCHANGED <<snapshotVars, driverVars, helloVars>>
  /\ UNCHANGED <<bufVars, bridgeVars, waitVars, eventVars, commandVars, relayVars, asyncVars>>

\* await cleanupBrowser(browser) with a browser object, any number of times
CleanupBrowser(i, quitFails, rmFails) ==
  /\ browsers[i] # NotLaunched
  /\ cleanup' = [cleanupBrowser(browsers[i], quitFails, rmFails)
                   EXCEPT !.turn = ~cleanup.turn]
  /\ browsers' = [browsers EXCEPT ![i] = cleanup'.after]
  /\ UNCHANGED <<snapshotVars, driverVars, helloVars>>
  /\ UNCHANGED <<bufVars, bridgeVars, waitVars, eventVars, commandVars, relayVars, asyncVars>>

InitCleanup ==
  /\ browsers = [i \in 1..MaxBrowsers |-> NotLaunched]
  /\ cleanup = NoCleanup

Init ==
  /\ InitBuf /\ InitBridge /\ InitWait
  /\ InitEvent /\ InitCommand /\ InitRelay /\ InitAsync
  /\ InitSnapshot /\ InitDriver /\ InitHello /\ InitCleanup

NextBuf ==
  \/ \E type \in TabEventTypes, n \in RunSizes : TabListener(type, n)
  \/ \E type \in WindowEventTypes, n \in RunSizes : WindowListener(type, n)
  \/ \E clear \in BOOLEAN : getTabEvents(clear)
  \/ \E clear \in BOOLEAN : getWindowEvents(clear)

SpecBuf == Init /\ [][NextBuf]_vars

NextSnapshot ==
  \/ \E type \in TabEventTypes : TabListener(type, 1)
  \/ \E type \in WindowEventTypes : WindowListener(type, 1)
  \/ getTabEvents(TRUE)
  \/ getWindowEvents(TRUE)
  \/ KeepTabEvents
  \/ KeepWindowEvents

SpecSnapshot == Init /\ [][NextSnapshot]_vars

NextHello ==
  \/ \E up \in BOOLEAN : CallReset(up)
  \/ \E action \in HelloActions, up \in BOOLEAN : SendToExtension(action, up)
  \/ \E switches, panel, present \in BOOLEAN :
        CallClickBrowserAction(switches, panel, present)

SpecHello == Init /\ [][NextHello]_vars

NextCleanup ==
  \/ \E i \in 1..MaxBrowsers : LaunchBrowser(i)
  \/ \E i \in 1..MaxBrowsers : OwnBrowser(i)
  \/ \E arg \in {"null", "undefined"} : CleanupNothing(arg)
  \/ \E i \in 1..MaxBrowsers, quitFails, rmFails \in BOOLEAN :
        CleanupBrowser(i, quitFails, rmFails)

SpecCleanup == Init /\ [][NextCleanup]_vars

NextBridge ==
  \/ \E up \in BOOLEAN : CallInit(up)
  \/ \E up \in BOOLEAN : CallReset(up)
  \/ \E op \in GuardedOps, up \in BOOLEAN : CallGuarded(op, up)
  \/ \E known \in BOOLEAN, fails \in BOOLEAN : CallGetExtensionUrl(known, fails)
  \/ \E known \in BOOLEAN, opened \in BOOLEAN, fails \in BOOLEAN :
       CallGetExtensionUrlByName(known, opened, fails)
  \/ \E page \in TestTargets : DriverGet(page)
  \/ NewWindow
  \/ \E h \in 1..MaxWindows : SwitchTo(h)

SpecBridge == Init /\ [][NextBridge]_vars

NextWait ==
  \/ StartWait
  \/ LoopTest
  \/ Poll
  \/ Settle
  \/ Verify
  \/ Sleep
  \/ RelayTimeout
  \/ WaitReturns

SpecWait == Init /\ [][NextWait]_vars

NextEvent ==
  \/ \E type \in TabEventTypes : TabListenerWhileWaiting(type, 1)
  \/ \E clear \in BOOLEAN : getTabEvents(clear)
  \/ \E eventType \in TabEventTypes : CallWaitForTabEvent(eventType)
  \/ PollTabEvent
  \/ TabEventTimeout

SpecEvent == Init /\ [][NextEvent]_vars

\* a test waits for a 'created' event while the browser reports single
\* events and storms of events, and another caller drains the buffer
StormTypes == {"created", "updated"}

NextStorm ==
  \/ \E type \in StormTypes, n \in RunSizes : TabListenerWhileWaiting(type, n)
  \/ getTabEvents(TRUE)
  \/ CallWaitForTabEvent("created")
  \/ PollTabEvent
  \/ TabEventTimeout

SpecStorm == Init /\ [][NextStorm]_vars

NextCommand ==
  \/ \E type \in TabEventTypes : TabListener(type, 1)
  \/ \E channel \in Channels, action \in Actions :
       \E arg \in Arguments(action) : Command(channel, action, arg)

SpecCommand == Init /\ [][NextCommand]_vars

NextRelay ==
  \/ \E r \in RelayRequests : sendRequest(r.action, r.arg)
  \/ RequestListener
  \/ ResponseListener
  \/ RequestTimer

SpecRelay == Init /\ [][NextRelay]_vars

NextAsync ==
  \/ \E i \in 1..MaxOps : StartGuarded(i)
  \/ \E i \in 1..MaxOps, hasTestBridge \in BOOLEAN : InitScan(i, hasTestBridge)
  \/ \E i \in 1..MaxOps : InitNavigate(i)
  \/ \E i \in 1..MaxOps, up \in BOOLEAN : InitInject(i, up)
  \/ \E i \in 1..MaxOps, http \in BOOLEAN : CheckUrl(i, http)
  \/ \E i \in 1..MaxOps : RunCommand(i)
  \/ AwaitAll

SpecAsync == Init /\ [][NextAsync]_vars

(***************************************************************************)
(* Properties of the event buffers (SpecBuf).                              *)
(***************************************************************************)
DrainActions == {"getTabEvents", "getWindowEvents"}

\* delivered, buffered and evicted events partition the recorded ones, and
\* delivered followed by buffered is in record order
ExactlyOnce(delivered, buffer, evicted, recorded) ==
  LET pending == Ordinals(buffer)
  IN  /\ StrictlyIncreasing(delivered \o pending)
      /\ Range(delivered) \cup Range(pending) \cup evicted = 1..recorded
      /\ evicted \cap (Range(delivered) \cup Range(pending)) = {}

\* C1: under any interleaving of listener calls with clearing drains, every
\* recorded event that was not evicted by overflow has been returned by
\* exactly one clearing drain or is still in the buffer for the next one
\* (never lost, never returned twice), and every drain returns its events
\* in the order they were recorded.
C1_DrainExactlyOnce ==
  /\ ExactlyOnce(tabDelivered, tabEventBuffer, tabEvicted, tabRecorded)
  /\ ExactlyOnce(windowDelivered, windowEventBuffer, windowEvicted, windowRecorded)
  /\ StrictlyIncreasing(Ordinals(response.data))
  /\ (response.action = "getTabEvents" /\ response.clear) => tabEventBuffer = <<>>
  /\ (response.action = "getWindowEvents" /\ response.clear) => windowEventBuffer = <<>>

\* a second clearing drain of the tab buffer has returned events, after an
\* overflow and an earlier clearing drain that returned events too
C1_Witness ==
  /\ response.action = "getTabEvents" /\ response.clear
  /\ Len(response.data) >= 1
  /\ Len(tabDelivered) > Len(response.data)
  /\ tabEvicted # {}

\* the last Min(k, capacity) of the events 1..recorded, in record order
LastRecorded(recorded, k, capacity) ==
  LET m == Min(k, capacity) IN [i \in 1..m |-> recorded - m + i]

\* C2: after k record calls with no clearing drain in between, a
\* non-clearing drain returns exactly the last min(k, 100) recorded events,
\* in the order they were recorded.
C2_LastHundred ==
  /\ (response.action = "getTabEvents" /\ ~response.clear) =>
       Ordinals(response.data) =
         LastRecorded(tabRecorded, tabRecorded - tabClearedAt, 100)
  /\ (response.action = "getWindowEvents" /\ ~response.clear) =>
       Ordinals(response.data) =
         LastRecorded(windowRecorded, windowRecorded - windowClearedAt, 100)

\* a non-clearing drain of the tab buffer after more than 100 records
C2_Witness ==
  /\ response.action = "getTabEvents" /\ ~response.clear
  /\ tabRecorded - tabClearedAt > 100
  /\ Len(response.data) = 100

\* C3: in every reachable state each of the two buffers holds at most 100
\* events.
C3_AtMostHundred ==
  /\ Len(tabEventBuffer) <= 100
  /\ Len(windowEventBuffer) <= 100

\* the window buffer is full after an overflow, and a drain has been served
C3_Witness ==
  /\ Len(windowEventBuffer) = 100
  /\ windowEvicted # {}
  /\ messages > 0

\* C4: a clearing drain that returned at least one event, followed
\* immediately by a non-clearing drain of the same buffer, makes the second
\* drain return the empty sequence.
C4_ClearThenEmpty ==
  \A a \in DrainActions :
    (/\ prevResponse.action = a /\ prevResponse.clear /\ prevResponse.len >= 1
     /\ response.action = a /\ ~response.clear)
    => response.data = <<>>

\* getWindowEvents(true) returned events and getWindowEvents() followed it
C4_Witness ==
  /\ prevResponse.action = "getWindowEvents" /\ prevResponse.clear
  /\ prevResponse.len >= 1
  /\ response.action = "getWindowEvents" /\ ~response.clear

(***************************************************************************)
(* Properties of the readiness logic (SpecBridge).                         *)
(***************************************************************************)
LookupOps == {"getExtensionUrl", "getExtensionUrlByName"}

\* C5: a guarded operation called while the flag is true and the driver is
\* on a non-http(s) page throws the not-an-HTTP error naming that page, sets
\* the readiness flag to false and sends no command to the page.
C5_NotHttpThrows ==
  (/\ outcome.op \in GuardedOps
   /\ outcome.preMode = "Ready"
   /\ ~IsHttp(outcome.prePage))
  => /\ outcome.status = "error"
     /\ outcome.error = "NotHTTP"
     /\ outcome.url = outcome.prePage
     /\ ~ready
     /\ ~outcome.sent
     /\ outcome.inits = 0 /\ outcome.navs = 0

\* the test navigated to about:blank and then called a guarded operation
C5_Witness ==
  /\ prev.op = "driver"
  /\ outcome.op = "ping"
  /\ outcome.preMode = "Ready"
  /\ outcome.prePage = "about:blank"
  /\ outcome.error = "NotHTTP"

\* C6 as stated: a guarded operation called in the Invalidated state fails
\* at once with the error naming the invalid location and neither navigates
\* nor initializes.
C6_FailsFast ==
  (outcome.op \in GuardedOps /\ outcome.preMode = "Invalidated")
  => /\ outcome.status = "error"
     /\ outcome.error = "NotHTTP"
     /\ outcome.inits = 0 /\ outcome.navs = 0

\* C6 amended: a guarded operation called in the Invalidated state runs
\* init() once, never raises the not-an-HTTP error, and fails only when
\* that init() times out; otherwise it sends its command and succeeds.
C6_Reinitializes ==
  (outcome.op \in GuardedOps /\ outcome.preMode = "Invalidated")
  => /\ outcome.inits = 1
     /\ outcome.error \in {"none", "InitTimeout"}
     /\ outcome.error = "none" => (ready /\ outcome.sent)
     /\ outcome.error = "InitTimeout" => (~ready /\ ~outcome.sent)

\* a guarded operation found the bridge Invalidated on a non-http page,
\* navigated by itself and succeeded
C6_Witness ==
  /\ outcome.op \in GuardedOps
  /\ outcome.preMode = "Invalidated"
  /\ ~IsHttp(outcome.prePage)
  /\ outcome.navs = 1
  /\ outcome.status = "ok"

C8_OnlyExplicitCalls ==
  (outcome.preMode = "Invalidated" /\ ready)
  => outcome.op \in {"init", "reset"}

\* C8 amended: the flag goes from Invalidated back to true only through a
\* run of init(): one the caller issues (init(), reset()) or the one
\* ensureReady() runs at the start of a guarded operation.
C8_OnlyThroughInit ==
  (outcome.preMode = "Invalidated" /\ ready)
  => /\ outcome.inits = 1
     /\ outcome.op \in {"init", "reset"} \cup GuardedOps

\* a guarded operation brought the flag back to true
C8_Witness ==
  /\ outcome.preMode = "Invalidated"
  /\ ready
  /\ outcome.op \in GuardedOps
  /\ outcome.inits = 1

\* C9: after a successful init() or reset() called while the browser was on
\* a non-http(s) page, the readiness flag is true and the next guarded
\* operation does not throw and returns its normal result.
C9_RecoversAfterInit ==
  (/\ prev.op \in {"init", "reset"} /\ prev.status = "ok" /\ ~prev.preHttp
   /\ outcome.op \in GuardedOps)
  => /\ outcome.preMode = "Ready"
     /\ outcome.status = "ok"
     /\ outcome.value = Reply(outcome.op)

\* C10: whenever the readiness flag is true, the bridge's own most recent
\* navigation (or switch to an existing window) ended on an http(s) content
\* page hosting the relay.
C10_ReadyMeansContentPage ==
  ready => lastTarget = "http"

\* C11: whenever getExtensionUrl() or getExtensionUrlByName() completes by
\* returning a value (a URL or null), the readiness flag is false and the
\* driver is on a privileged page.
C11_LookupInvalidates ==
  (outcome.op \in LookupOps /\ outcome.status = "ok")
  => /\ ~ready
     /\ outcome.value \in {"moz-extension://uuid", "null"}
     /\ ~IsHttp(pages[focus])
     /\ outcome.navs >= 1

\* getExtensionUrlByName() called on a Ready bridge returned null
C11_Witness ==
  /\ outcome.op = "getExtensionUrlByName"
  /\ outcome.preMode = "Ready"
  /\ outcome.status = "ok"
  /\ outcome.value = "null"

\* C12: a call sends a command to window.TestBridge only after its own
\* ensureReady() has returned without error, and a call whose ensureReady()
\* throws sends no command and ends with that error.
C12_GuardBeforeCommand ==
  /\ outcome.sent => (outcome.op \in GuardedOps /\ outcome.guard = "passed")
  /\ outcome.guard = "threw" =>
       /\ ~outcome.sent
       /\ outcome.error \in {"NotHTTP", "InitTimeout"}
       /\ outcome.value = "none"
  /\ outcome.op \in GuardedOps => outcome.guard \in {"passed", "threw"}

\* getTabs() on an uninitialized bridge whose init() timed out sent nothing
C12_Witness ==
  /\ outcome.op = "getTabs"
  /\ outcome.guard = "threw"
  /\ outcome.error = "InitTimeout"
  /\ ~outcome.sent

\* C13: after a successful init(), as long as the current location remains
\* an http(s) page the flag stays true, and every ensureReady() check made
\* there returns without throwing, without navigating or initializing, and
\* leaves the flag true.
C13_ReadyStaysReady ==
  /\ httpSinceInit => (ready /\ IsHttp(pages[focus]))
  /\ (/\ outcome.op \in GuardedOps
      /\ outcome.preMode = "Ready"
      /\ IsHttp(outcome.prePage))
     => /\ outcome.guard = "passed"
        /\ outcome.error \notin {"NotHTTP", "InitTimeout"}
        /\ outcome.inits = 0 /\ outcome.navs = 0
        /\ ready

\* a second guarded operation in a row passed its check on an http page
C13_Witness ==
  /\ httpSinceInit
  /\ prev.op \in GuardedOps /\ prev.status = "ok" /\ prev.preHttp
  /\ outcome.op \in GuardedOps
  /\ outcome.preMode = "Ready" /\ IsHttp(outcome.prePage)
  /\ outcome.status = "ok"

\* C14: reset() called in the Ready state ends in the Ready state, a second
\* reset() right after it leaves the flag as the first did, and a guarded
\* operation that follows a reset() which returned succeeds.
C14_ResetSafeWhenReady ==
  /\ (outcome.op = "reset" /\ outcome.preMode = "Ready") => ready
  /\ (prev.op = "reset" /\ outcome.op = "reset" /\ outcome.preMode = "Ready")
       => ready
  /\ (/\ prev.op = "reset" /\ prev.preReady /\ prev.status = "ok"
      /\ outcome.op \in GuardedOps)
     => (outcome.status = "ok" /\ outcome.value = Reply(outcome.op))

(***************************************************************************)
(* Properties of the waiters (SpecWait).                                   *)
(***************************************************************************)
\* the time at which the k-th call of the condition begins when none of the
\* earlier calls ended the wait
BeginsAt(w, k) == (k - 1) * (w.interval + w.pollTime)

\* C15 as stated: waitForCondition with a condition that first becomes
\* truthy on its k-th call, where k * interval < timeout, calls the condition
\* exactly k times and returns the value of the k-th call.
C15_KthCallValue ==
  (/\ wait.waiter = "waitForCondition" /\ pc = "done"
   /\ wait.throwUntil = 0 /\ wait.trueAt >= 1
   /\ wait.trueAt * wait.interval < wait.timeout)
  => (polls = wait.trueAt /\ result = wait.value /\ raised = "none")

\* C15 amended: waitForCondition with a condition that first becomes truthy
\* on its k-th call, where that call begins before the timeout has elapsed
\* ((k - 1) * interval plus the time taken by the first k - 1 calls is less
\* than timeout), calls the condition exactly k times and returns the value
\* of the k-th call itself, not a boolean coercion of it.
C15_KthCallInTime ==
  (/\ wait.waiter = "waitForCondition" /\ pc = "done"
   /\ wait.throwUntil = 0 /\ wait.trueAt >= 1
   /\ BeginsAt(wait, wait.trueAt) < wait.timeout)
  => (polls = wait.trueAt /\ result = wait.value /\ raised = "none")

\* a slow condition yielded the payload 'done' on its third call
C15_Witness ==
  /\ wait.waiter = "waitForCondition" /\ pc = "done"
  /\ wait.throwUntil = 0 /\ wait.trueAt = 3 /\ wait.pollTime > 0
  /\ wait.value = "done"
  /\ polls = 3 /\ result = "done"

\* C16: waitForCondition never raises an error of its condition; a call
\* that throws counts as not yet satisfied and polling goes on, so when the
\* condition throws on its first calls and yields a truthy value on a call
\* that begins before the timeout, the wait returns that value; a wait that
\* gives up does so only once the timeout has elapsed.
C16_ErrorsKeepPolling ==
  wait.waiter = "waitForCondition" =>
    /\ raised = "none"
    /\ (/\ pc = "done" /\ wait.throwUntil >= 1 /\ wait.trueAt >= 1
        /\ BeginsAt(wait, FirstTruthy(wait)) < wait.timeout)
       => (result = wait.value /\ polls = FirstTruthy(wait))
    /\ (pc = "done" /\ result = "null") => ~LoopContinues(elapsed, wait.timeout)

\* the condition threw twice and the wait returned the third call's value
C16_Witness ==
  /\ wait.waiter = "waitForCondition" /\ pc = "done"
  /\ wait.throwUntil = 2
  /\ polls = 3 /\ result = wait.value /\ raised = "none"

\* C17: waitForCondition with a condition that is falsy on every call and
\* timeout T returns null, at an elapsed time of at least T and at most
\* T + interval plus the time of a call of the condition.
C17_NullAtTimeout ==
  (/\ wait.waiter = "waitForCondition" /\ pc = "done"
   /\ wait.trueAt = 0 /\ wait.throwUntil = 0)
  => /\ result = "null" /\ raised = "none"
     /\ elapsed >= wait.asked
     /\ elapsed <= wait.asked + wait.interval + wait.pollTime

\* an always falsy, slow condition was polled more than once and the wait
\* gave up
C17_Witness ==
  /\ wait.waiter = "waitForCondition" /\ pc = "done"
  /\ wait.trueAt = 0 /\ wait.throwUntil = 0
  /\ wait.asked > 0 /\ wait.pollTime > 0
  /\ polls >= 2
  /\ result = "null"

\* C18: for every waiter and every timeout, a wait whose condition never
\* becomes true ends by returning null (false for the count waiters and the
\* in-page waitFor) and never by raising an error.
C18_GivesUpWithoutError ==
  (pc = "done" /\ wait.trueAt = 0 /\ wait.throwUntil = 0)
  => (raised = "none" /\ result = TimeoutValue(wait.waiter))

\* C19: in waitForTabUrl, waitForTabEvent, waitForTabLoad, waitForTabCount,
\* waitForWindowCount and the in-page waitFor an error raised by a single
\* poll never reaches the caller of the waiter.
C19_PollErrorsSwallowed ==
  wait.waiter \in Waiters \ {"waitForCondition"} => raised # "PollError"

\* C20: a call of waitForCondition, waitForTabUrl, waitForTabEvent,
\* waitForTabLoad, waitForTabCount or waitForWindowCount with a timeout of
\* zero or less polls at most once and then returns its timeout value.
C20_ZeroTimeoutOnePoll ==
  (wait.waiter \in Waiters \ {"waitFor"} /\ wait.asked <= 0)
  => /\ polls <= 1
     /\ pc = "done" => (result = TimeoutValue(wait.waiter) /\ raised = "none")

\* C21 as stated: waitForTabCount and waitForWindowCount return true only
\* after a match at a poll and a second match at the re-read taken 2000 ms
\* later, and return false unless that confirmed match occurs before the
\* timeout.
C21_ConfirmedBeforeTimeout ==
  (wait.waiter \in CountWaiters /\ pc = "done")
  => /\ raised = "none"
     /\ result = "true" =>
          /\ wait.holds /\ polls = FirstTruthy(wait) + 1
          /\ elapsed < wait.timeout

\* C21 amended: waitForTabCount and waitForWindowCount return true only if
\* the length equalled the target at a poll that began before the timeout
\* and equalled it again at the re-read taken after the fixed 2000 ms settle
\* delay, so the confirmation may complete after the timeout; if the re-read
\* differs the wait keeps polling, and if no poll that began before the
\* timeout is confirmed it returns false once the timeout has elapsed.
C21_ConfirmedMatch ==
  (wait.waiter \in CountWaiters /\ pc = "done")
  => /\ raised = "none"
     /\ result \in {"true", "false"}
     /\ result = "true" <=>
          /\ wait.holds /\ wait.trueAt >= 1
          /\ BeginsAt(wait, FirstTruthy(wait)) < wait.timeout
     /\ result = "true" =>
          /\ polls = FirstTruthy(wait) + 1
          /\ elapsed = BeginsAt(wait, FirstTruthy(wait)) + SETTLE_DELAY
                         + 2 * wait.pollTime
     /\ result = "false" => ~LoopContinues(elapsed, wait.timeout)
     /\ (/\ ~wait.holds /\ wait.trueAt >= 1
         /\ BeginsAt(wait, FirstTruthy(wait)) < wait.timeout)
        => polls >= FirstTruthy(wait) + 1

\* a count matched, was confirmed 2000 ms later, after the timeout had
\* already elapsed, and the wait returned true
C21_Witness ==
  /\ wait.waiter = "waitForTabCount" /\ pc = "done"
  /\ result = "true"
  /\ polls >= 2
  /\ elapsed > wait.timeout /\ wait.timeout > 0

\* C24: waitForTabLoad returns a tab only from a poll that found the tab
\* with status 'complete'; a poll whose lookup fails because the tab does
\* not exist counts as not yet satisfied, and when every poll fails the call
\* returns null once the timeout has elapsed, without raising.
C24_MissingTabNotAnError ==
  wait.waiter = "waitForTabLoad" =>
    /\ raised = "none"
    /\ (pc = "done" /\ result # "null")
       => (PollOutcome(wait, polls) = "truthy" /\ result = wait.value)
    /\ (pc = "done" /\ result = "null") => ~LoopContinues(elapsed, wait.timeout)
    /\ (pc = "done" /\ polls <= wait.throwUntil) => result = "null"
    /\ (pc = "sleep" /\ polls <= wait.throwUntil) => result = "pending"

\* every lookup of the wait failed, more than once, and it returned null
C24_Witness ==
  /\ wait.waiter = "waitForTabLoad" /\ pc = "done"
  /\ polls >= 2 /\ polls <= wait.throwUntil
  /\ result = "null" /\ raised = "none"

\* C22: a poll of waitForTabEvent leaves the tab event buffer as it was and
\* returns the first event of the wanted type, in buffer order, among the
\* events it read, or goes on polling when there is none; the call returns
\* an event only from a poll, and null only if none of its polls saw one.
C22_FirstOfTypeNoDrain ==
  [][/\ (found'.polls = found.polls + 1) =>
          /\ tabEventBuffer' = tabEventBuffer
          /\ tabDelivered' = tabDelivered
          /\ LET hits == {i \in 1..Len(tabEventBuffer) :
                           tabEventBuffer[i].type = seeking}
             IN  IF hits = {} THEN found'.status = "pending"
                 ELSE /\ found'.status = "returned"
                      /\ \E i \in hits : /\ found'.event = tabEventBuffer[i]
                                         /\ \A j \in hits : i <= j
     /\ (found'.status = "returned" /\ found.status # "returned")
          => found'.polls = found.polls + 1
     /\ (found'.status = "null" /\ found.status # "null")
          => (found.status = "pending" /\ ~found.saw)
    ]_vars

\* a second poll has returned the first of two events of the wanted type,
\* which is not the first event of the buffer
C22_Witness ==
  /\ found.status = "returned"
  /\ found.polls >= 2
  /\ Len(tabEventBuffer) >= 3
  /\ tabEventBuffer[1].type # seeking
  /\ tabEventBuffer[2] = found.event
  /\ tabEventBuffer[3].type = seeking

\* C23: waitForTabUrl returns a tab only if that tab was the first tab, in
\* list order, whose url contains the pattern in the list read at a poll,
\* and returns null if no poll begun before the timeout finds such a tab.
C23_FirstMatchOrNull ==
  (wait.waiter = "waitForTabUrl" /\ pc = "done")
    => /\ (raised = "none" /\ result # "null")
            => \E i \in 1..Len(seen) :
                  /\ seen[i] = result
                  /\ Url[result] # <<>> /\ Includes(Url[result], wait.pattern)
                  /\ \A j \in 1..(i - 1) :
                        Url[seen[j]] = <<>> \/ ~Includes(Url[seen[j]], wait.pattern)
       /\ (/\ wait.throwUntil = 0
           /\ \/ wait.trueAt = 0
              \/ BeginsAt(wait, wait.trueAt) >= wait.asked)
            => (result = "null" /\ raised = "none")

\* C25: whenever the background script answers a command with success false,
\* the caller gets a thrown error whose message is the error text of the
\* answer (the empty text for an absent one), and never a value.
C25_FailureIsThrown ==
  (answer.asked /\ ~answer.success)
    => /\ returned.kind = "error"
       /\ returned.message = ErrorMessage(answer.error)

\* C26: forwardToExtension returns the reply of the target extension as it
\* is, a reply {success: false, ...} included, and throws exactly when the
\* delivery to the target extension fails.
C26_ReplyUnchanged ==
  call.action = "forwardToExtension"
    => IF call.arg.ok
       THEN returned = Resolved(call.arg.value)
       ELSE /\ returned.kind = "error"
            /\ returned.message = "Extension not responding: " \o call.arg.message

\* a reply {success: false, error: ...} of the target has come back as a value
C26_Witness ==
  /\ call.action = "forwardToExtension" /\ call.channel = "relay"
  /\ call.arg.ok
  /\ call.arg.value # Undefined
  /\ ~call.arg.value.success
  /\ returned.kind = "value" /\ returned.value = call.arg.value

\* C27: a command whose action is not a known one ends in an error with the
\* message 'Unknown action: <name>', the background script answers it, when
\* asked, with success false and that message, and the step changes neither
\* event buffer nor any other state of the background script.
C27_UnknownActionRefused ==
  [][(commandVars' # commandVars /\ call'.action \notin KnownActions)
       => /\ returned' = Rejected("Unknown action: " \o call'.action)
          /\ answer'.asked
               => (~answer'.success
                   /\ answer'.error = "Unknown action: " \o call'.action)
          /\ answer'.asked <=> call'.channel = "api"
          /\ bufVars' = bufVars
    ]_vars

\* an unknown action has been refused by the background script while the
\* tab event buffer holds events
C27_Witness ==
  /\ call.action = "bogus" /\ call.channel = "api"
  /\ answer.asked /\ ~answer.success
  /\ returned.kind = "error"
  /\ tabEventBuffer # <<>>

SettledIds == {settled[i].id : i \in 1..Len(settled)}

\* C28: every request is either pending or settled, never both; it is
\* settled once; a request whose timer has fired and whose response has been
\* handled is settled; a timeout rejection comes only from a fired timer.
C28_SettledOnce ==
  /\ \A i, j \in 1..Len(settled) : settled[i].id = settled[j].id => i = j
  /\ SettledIds \cap pendingRequests = {}
  /\ SettledIds \cup pendingRequests = 1..requestId
  /\ \A i \in 1..Len(settled) :
       settled[i].outcome = TimedOut => settled[i].id \notin timers
  /\ \A id \in 1..requestId :
       (id \notin timers
          \/ (/\ \A m \in requests : m.id # id
              /\ \A m \in responses : m.id # id))
         => id \in SettledIds

\* a request was rejected by its timer, its response came afterwards and was
\* dropped, and another request was settled by its response
C28_Witness ==
  /\ requestId = 2
  /\ requests = {} /\ responses = {} /\ timers = {}
  /\ Len(settled) = 2
  /\ settled[1].outcome = TimedOut
  /\ settled[2].outcome # TimedOut

\* the outcome the content script and the background script produce for a
\* request
OwnOutcome(r) ==
  settle(contentScript(r.action,
                       IF r.action \in BG_ACTIONS THEN onMessage(r.action, r.arg)
                       ELSE NotAsked))

\* C29: the ids of the requests made are pairwise distinct, the messages in
\* flight carry the request made under their id, and a request is settled
\* with the outcome of its own request or with the timeout.
C29_OwnOutcome ==
  /\ Cardinality(SettledIds \cup pendingRequests) = Len(made)
  /\ \A m \in requests : made[m.id] = [action |-> m.action, arg |-> m.arg]
  /\ \A m1, m2 \in requests \cup responses :
       (m1.id = m2.id) => (m1 = m2)
  /\ \A i \in 1..Len(settled) :
       settled[i].outcome \in {OwnOutcome(made[settled[i].id]), TimedOut}

\* two different requests were outstanding together and were answered in
\* the reverse order
C29_Witness ==
  /\ Len(settled) = 2
  /\ settled[1].id = 2 /\ settled[2].id = 1
  /\ settled[1].outcome = OwnOutcome(made[2])
  /\ settled[2].outcome = OwnOutcome(made[1])
  /\ OwnOutcome(made[1]) # OwnOutcome(made[2])

\* C30: at most one init(), and so at most one navigation made by the
\* bridge, is in progress at any time.
C30_OneInitAtATime ==
  /\ InitsInProgress <= 1
  /\ NavigationsInProgress <= 1

\* C31 as stated: once an event of the wanted type has been recorded after
\* waitForTabEvent began and a poll has taken place after that, with nothing
\* but further recorded events in between, the call has returned an event of
\* that type.
C31_RecordedThenPolled ==
  (/\ found.wanted > 0 /\ found.polls > 0 /\ found.polledAt >= found.wanted
   /\ tabClearedAt < found.wanted)
    => (found.status = "returned" /\ found.event.type = seeking)

\* C31: a poll that takes place while an event of the wanted type recorded
\* since the call began is still retained (fewer than TAB_EVENT_BUFFER_SIZE
\* events were recorded after it, and no clearing drain came after it) makes
\* the call return an event of that type.
C31_RetainedThenPolled ==
  [][(/\ found'.polls = found.polls + 1
      /\ found.wanted > 0
      /\ tabRecorded - found.wanted < TAB_EVENT_BUFFER_SIZE
      /\ tabClearedAt < found.wanted)
       => (found'.status = "returned" /\ found'.event.type = seeking)
    ]_vars

\* the wanted event was recorded after a first poll, a storm of other events
\* followed it without evicting it, and the next poll returned it
C31_Witness ==
  /\ found.status = "returned"
  /\ found.polls >= 2
  /\ found.event.seq = found.wanted
  /\ tabRecorded - found.wanted >= TAB_EVENT_BUFFER_SIZE - 1
  /\ tabEventBuffer[Len(tabEventBuffer)].type # seeking

\* C32: a waiter call whose polls all return ends only on a truthy poll,
\* with the value of that poll, or on the expiry of its timeout, with its
\* timeout value; it never ends by raising.
C32_EndsOnTruthyOrTimeout ==
  (pc = "done" /\ wait.throwUntil = 0)
    => /\ raised = "none"
       /\ \/ /\ result = TimeoutValue(wait.waiter)
             /\ ~LoopContinues(elapsed, wait.timeout)
          \/ /\ polls >= 1
             /\ PollOutcome(wait, polls) = "truthy"

\* C33: the in-page waitFor returns the truthy value its condition produced,
\* as soon as a poll yields one, and null when the timeout expires.
C33_PayloadOrNull ==
  (wait.waiter = "waitFor" /\ pc = "done" /\ raised = "none")
    => IF polls >= 1 /\ PollOutcome(wait, polls) = "truthy"
       THEN result = wait.value
       ELSE result = "null"

\* C34: a call in which init() ran and threw leaves the readiness flag as
\* it was before the call; a call of init() or reset() that returns leaves
\* the flag true, on a window that hosts the relay.
C34_FailedInitKeepsFlag ==
  /\ (outcome.inits = 1 /\ outcome.error = "InitTimeout")
       => ready = (outcome.preMode = "Ready")
  /\ (outcome.op \in {"init", "reset"} /\ outcome.status = "ok")
       => (ready /\ HasTestBridge(pages[focus]))
  /\ (outcome.op \in {"init", "reset"} /\ ready /\ outcome.preMode # "Ready")
       => outcome.status = "ok"

\* reset() on a ready bridge navigated, its init() timed out, and the flag
\* is still true
C34_Witness ==
  /\ outcome.op = "reset"
  /\ outcome.error = "InitTimeout"
  /\ outcome.preMode = "Ready"
  /\ ready

\* C35: a drain without clear leaves both buffers as they were and returns
\* the events of its buffer in order, and what a test reads in an array it
\* was given stays what was returned, whatever is recorded or cleared later.
C35_SnapshotIsACopy ==
  [][/\ (messages' = messages + 1 /\ ~response'.clear)
          => /\ tabEventBuffer' = tabEventBuffer
             /\ windowEventBuffer' = windowEventBuffer
             /\ response'.data = IF response'.action = "getTabEvents"
                                 THEN tabEventBuffer ELSE windowEventBuffer
             /\ snapshot'.items = response'.data
     /\ ~(messages' = messages + 1 /\ ~response'.clear)
          => Held(snapshot', tabEventBuffer', windowEventBuffer')
               = Held(snapshot, tabEventBuffer, windowEventBuffer)
     /\ Held(snapshot', tabEventBuffer', windowEventBuffer') = snapshot'.items
    ]_vars

\* a test holds a snapshot of two tab events while the buffer has since been
\* cleared and holds one newer event
C35_Witness ==
  /\ snapshot.category = "tab"
  /\ Len(snapshot.items) = 2
  /\ Len(tabEventBuffer) = 1
  /\ tabEventBuffer[1].seq > snapshot.items[2].seq
  /\ tabClearedAt >= snapshot.items[2].seq


\* C36: the two event buffers are independent. A step that records tab
\* events or handles a getTabEvents message, clearing or not, leaves the
\* window buffer and its history as they were, and a step that records
\* window events or handles a getWindowEvents message leaves the tab buffer
\* and its history as they were.
C36_BuffersIndependent ==
  [][/\ (tabRecorded' # tabRecorded
           \/ (messages' # messages /\ response'.action = "getTabEvents"))
          => UNCHANGED <<windowEventBuffer, windowRecorded, windowDelivered,
                         windowEvicted, windowClearedAt>>
     /\ (windowRecorded' # windowRecorded
           \/ (messages' # messages /\ response'.action = "getWindowEvents"))
          => UNCHANGED <<tabEventBuffer, tabRecorded, tabDelivered,
                         tabEvicted, tabClearedAt>>
    ]_vars

\* a clearing getTabEvents has just returned tab events and emptied the tab
\* buffer while the window buffer still holds its events
C36_Witness ==
  /\ response.action = "getTabEvents"
  /\ response.clear
  /\ Len(response.data) > 0
  /\ tabEventBuffer = <<>>
  /\ Len(windowEventBuffer) > 0
  /\ windowClearedAt = 0

\* C40: every event in the tab buffer has type created, updated or removed,
\* and every event in the window buffer has type created or removed: no
\* window event of type updated is ever recorded.
C40_EventTypes ==
  /\ \A i \in 1..Len(tabEventBuffer) :
        tabEventBuffer[i].type \in {"created", "updated", "removed"}
  /\ \A i \in 1..Len(windowEventBuffer) :
        windowEventBuffer[i].type \in {"created", "removed"}

\* the tab buffer holds an updated event while the window buffer holds a
\* removed event
C40_Witness ==
  /\ \E i \in 1..Len(tabEventBuffer) : tabEventBuffer[i].type = "updated"
  /\ \E i \in 1..Len(windowEventBuffer) : windowEventBuffer[i].type = "removed"


\* C37: when a clickBrowserAction call has returned or thrown, also because
\* the button of the extension is not in the panel, the driver is in the
\* content context and the readiness flag is what it was; a reset() that
\* follows succeeds when the test page injects the bridge, and a
\* sendToExtension call that follows the click returns a value.
C37_ContextRestored ==
  [][/\ (reply'.seq # reply.seq /\ reply'.op = "clickBrowserAction")
          => /\ context' = "content"
             /\ ready' = ready
     /\ (/\ reply.op = "clickBrowserAction"
         /\ outcome' # outcome
         /\ outcome'.op = "reset"
         /\ outcome'.injects)
          => /\ outcome'.status = "ok"
             /\ ready'
     /\ (/\ reply.op = "clickBrowserAction"
         /\ outcome.op = "reset"
         /\ outcome.status = "ok"
         /\ reply'.seq # reply.seq
         /\ reply'.op = "sendToExtension")
          => reply'.outcome.kind = "value"
    ]_vars

\* clickBrowserAction threw, reset() then succeeded and a sendToExtension
\* call returned a value
C37_Witness ==
  /\ reply.op = "sendToExtension"
  /\ reply.prevOp = "clickBrowserAction"
  /\ reply.prevKind = "error"
  /\ reply.outcome.kind = "value"
  /\ outcome.op = "sendToExtension"
  /\ prev.op = "reset"
  /\ prev.status = "ok"
  /\ context = "content"

\* C38: the hello-world extension has received the payload of every
\* sendToExtension call that returned once, in call order; its counter is
\* the number of increment messages plus the number of toolbar clicks; the
\* latest message changed the counter by one if it was increment and not at
\* all otherwise, and getCounter returned the counter.
C38_DeliveredOnceInOrder ==
  /\ received = asked
  /\ counter = Len(SelectSeq(asked, LAMBDA a : a = "increment")) + clicked
  /\ (reply.op = "sendToExtension" /\ reply.outcome.kind = "value")
       => /\ counter = reply.before + (IF reply.action = "increment" THEN 1 ELSE 0)
          /\ reply.action = "getCounter"
               => reply.outcome = Resolved(Object(TRUE, Number(counter), NoText))
          /\ reply.action = "nonexistent"
               => /\ reply.outcome.kind = "value"
                  /\ ~reply.outcome.value.success

\* after increment messages and a toolbar click, getCounter returns their sum
C38_Witness ==
  /\ Len(SelectSeq(asked, LAMBDA a : a = "increment")) >= 2
  /\ clicked >= 1
  /\ reply.op = "sendToExtension"
  /\ reply.action = "getCounter"
  /\ reply.outcome = Resolved(Object(TRUE, Number(3), NoText))


====
